---- MODULE Spec2Model ----
(***************************************************************************)
(* A model of dip-cli's project discovery and container resolution:        *)
(*   - the env-file loader and the ProjectConfig constructor (project.py), *)
(*   - the upward walk that locates the project root (project.py),         *)
(*   - the subprocess environment built by get_env (project.py),           *)
(*   - CliManager.get_containers / get_container (manager.py),             *)
(*   - CliManager.__init__ and the handlers sysinfo, status, exec, stop,   *)
(*     exec_custom, reset, shell and top, with the external processes      *)
(*     they run (manager.py),                                              *)
(*   - the handlers that ask before they destroy (remove, prune) and the   *)
(*     Traefik handlers, on a host with its networks (manager.py).         *)
(*                                                                         *)
(* Text is a sequence of symbols.  A symbol is one of the characters the   *)
(* loader looks at (space, '#', '=', line feed, carriage return) or a     *)
(* word atom: a run of other characters ("PROJECT_NAME", "proj").          *)
(***************************************************************************)
EXTENDS Integers, Sequences, FiniteSets

VARIABLES
    text,              \* SpecEnv: the bytes of the env file handed to the loader
    parsed,            \* SpecEnv: [done, env]: the mapping the loader produced
    cwd,               \* depth of the current working directory (0 is "/")
    marker,            \* marker[d]: what "<dir d>/.dip" is: "none", "file", "dir"
    found,             \* SpecLocate: [done, res]: find_root's result
    env_file,          \* "<root>/.dip/.env": [exists, bytes]
    default_env_file,  \* "<root>/.dip/default.env": [exists, readable, bytes]
    os_environ,        \* the inherited process environment (a dict)
    project,           \* CliManager.project: [set, root_dir, project_name,
                       \*   container_dir, env_name]
    status,            \* the process: [state, code, exc]; state is "running",
                       \*   "exit" (sys.exit or normal end) or "raised"
    output,            \* messages printed by this process, oldest first
    env_out,           \* [done, env]: what the last get_env() returned
    runs,              \* number of CLI invocations started so far
    op,                \* the operation performed last
    engine,            \* the rows "compose ps -a" prints for the project, in
                       \*   the engine's order
    resolutions,       \* the get_container calls of this process that got as
                       \*   far as matching, oldest first
    walk,              \* SpecWalk: [state, current]: find_root's loop, one
                       \*   iteration at a time
    calls,             \* SpecCmd: the external processes this process has
                       \*   run, oldest first
    constructed,       \* number of ProjectConfig(root) calls of this process
    compose_file,      \* whether "<root>/.dip/docker-compose.yml" exists
    host               \* what the commands find outside the project:
                       \*   [stdin, traefik_running, traefik_compose_file,
                       \*    networks, attached]

envVars  == <<text, parsed>>
treeVars == <<cwd, marker>>
locVars  == <<cwd, marker, found>>
fsVars   == <<env_file, default_env_file>>
procVars == <<project, status, output, env_out, runs, op>>
resVars  == <<engine, resolutions>>
cmdVars  == <<calls, compose_file, host>>
vars == <<text, parsed, cwd, marker, found, env_file, default_env_file,
          os_environ, project, status, output, env_out, runs, op,
          engine, resolutions, walk, calls, constructed, compose_file, host>>

(***************************************************************************)
(* Symbols                                                                 *)
(***************************************************************************)
SP   == " "
HASH == "#"
EQ   == "="
LF   == "LF"
CR   == "CR"

\* str.strip() with no argument removes whitespace; of the symbols of the
\* model these are the space and the two line terminators.
Whitespace == {SP, LF, CR}

\* find_root's Optional[Path] and the directories it looked at
NoPath == [ok |-> FALSE, dir |-> 0, visited |-> <<>>]

\* find_root's loop before Path.cwd() is read
WalkIdle == [state |-> "idle", current |-> 0]

\* A host where nothing is typed, Traefik and its files are absent and the
\* engine has no networks
QuietHost ==
    [stdin |-> <<>>, traefik_running |-> FALSE,
     traefik_compose_file |-> FALSE, networks |-> {}, attached |-> <<>>]

(***************************************************************************)
(* Bounds                                                                  *)
(***************************************************************************)
MaxTextLen == 5      \* SpecEnv: length of the env file, in symbols
MaxDepth   == 3      \* depth of the deepest directory of the chain
MaxRuns    == 2      \* CLI invocations in a behaviour
MaxOutput  == 3      \* messages a process prints before the model stops it
MaxContainers == 2   \* rows the engine lists for the project
MaxCalls   == 2      \* get_container calls followed in one process
MaxHealthChecks == 4 \* health checks of one handler that the model lets fail

(***************************************************************************)
(* Python built-ins used by the loader                                     *)
(***************************************************************************)
\* Universal-newline decoding of a file opened in text mode (newline=None):
\* "\r\n" and a lone "\r" are both read as "\n".
RECURSIVE ReadText(_)
ReadText(bytes) ==
    IF bytes = <<>> THEN <<>>
    ELSE IF Head(bytes) = CR
         THEN IF Len(bytes) >= 2 /\ bytes[2] = LF
              THEN <<LF>> \o ReadText(Tail(Tail(bytes)))
              ELSE <<LF>> \o ReadText(Tail(bytes))
         ELSE <<Head(bytes)>> \o ReadText(Tail(bytes))

\* Iterating a text file: each line keeps its terminating "\n"; a last line
\* without terminator is yielded when it is non-empty.
RECURSIVE FileLinesFrom(_, _)
FileLinesFrom(s, cur) ==
    IF s = <<>> THEN (IF cur = <<>> THEN <<>> ELSE <<cur>>)
    ELSE IF Head(s) = LF
         THEN <<Append(cur, LF)>> \o FileLinesFrom(Tail(s), <<>>)
         ELSE FileLinesFrom(Tail(s), Append(cur, Head(s)))

FileLines(bytes) == FileLinesFrom(ReadText(bytes), <<>>)

RECURSIVE LStrip(_)
LStrip(s) ==
    IF s # <<>> /\ Head(s) \in Whitespace THEN LStrip(Tail(s)) ELSE s

RECURSIVE RStrip(_)
RStrip(s) ==
    IF s # <<>> /\ s[Len(s)] \in Whitespace
    THEN RStrip(SubSeq(s, 1, Len(s) - 1)) ELSE s

\* str.strip()
Strip(s) == RStrip(LStrip(s))

\* sep in s, for a one-character separator
Contains(s, sep) == \E i \in 1..Len(s) : s[i] = sep

\* s.find(sep): the first index of sep (the caller has checked sep in s)
RECURSIVE Find(_, _, _)
Find(s, sep, i) == IF s[i] = sep THEN i ELSE Find(s, sep, i + 1)

\* Mutant of SplitFirst: splits at the last separator, as rsplit does.
SplitFirst_Last(s, sep) ==
    LET i == CHOOSE x \in 1..Len(s) :
                 s[x] = sep /\ \A y \in (x + 1)..Len(s) : s[y] # sep
    IN  <<SubSeq(s, 1, i - 1), SubSeq(s, i + 1, Len(s))>>

\* s.split(sep, 1) for s containing sep: <<before, after>> the first sep
SplitFirst(s, sep) ==
    LET i == Find(s, sep, 1)
    IN  <<SubSeq(s, 1, i - 1), SubSeq(s, i + 1, Len(s))>>

\* s.startswith(prefix)
StartsWith(s, prefix) ==
    /\ Len(prefix) <= Len(s)
    /\ SubSeq(s, 1, Len(prefix)) = prefix

\* d[k] = v on a dict (a function from keys to values)
DictSet(d, k, v) ==
    [x \in (DOMAIN d) \cup {k} |-> IF x = k THEN v ELSE d[x]]

\* d.update(e)
DictUpdate(d, e) ==
    [x \in (DOMAIN d) \cup (DOMAIN e) |-> IF x \in DOMAIN e THEN e[x] ELSE d[x]]

EmptyDict == [x \in {} |-> <<>>]

(***************************************************************************)
(* ProjectConfig.__init__, lines 38-43: the env-file loader                *)
(***************************************************************************)
\* One iteration of "for line in f": the dict after the line is processed.
LoadLine(env, rawline) ==
    LET line == Strip(rawline)
    IN  IF line # <<>> /\ ~StartsWith(line, <<HASH>>) /\ Contains(line, EQ)
        THEN LET kv == SplitFirst(line, EQ)
             IN  DictSet(env, Strip(kv[1]), Strip(kv[2]))
        ELSE env

RECURSIVE LoadLines(_, _)
LoadLines(env, lines) ==
    IF lines = <<>> THEN env
    ELSE LoadLines(LoadLine(env, Head(lines)), Tail(lines))

\* self.env_name after the loop, for an env file holding `bytes`
LoadEnv(bytes) == LoadLines(EmptyDict, FileLines(bytes))

(***************************************************************************)
(* SpecEnv: the loader applied to every short text                         *)
(***************************************************************************)
Chars == {SP, HASH, EQ, LF, CR, "a", "b"}
Texts == UNION {[1..n -> Chars] : n \in 0..MaxTextLen}

LocIdle ==
    /\ cwd = 0
    /\ marker = [d \in 0..MaxDepth |-> "none"]
    /\ found = [done |-> FALSE, res |-> NoPath]
    /\ walk = WalkIdle

NoFile == [exists |-> FALSE, readable |-> FALSE, bytes |-> <<>>]
NoProject ==
    [set |-> FALSE, root_dir |-> 0, project_name |-> <<>>,
     container_dir |-> <<>>, env_name |-> EmptyDict]
Running == [state |-> "running", code |-> 0, exc |-> "none"]

ProcIdle ==
    /\ env_file = NoFile
    /\ default_env_file = NoFile
    /\ os_environ = EmptyDict
    /\ project = NoProject
    /\ status = Running
    /\ output = <<>>
    /\ env_out = [done |-> FALSE, env |-> EmptyDict]
    /\ runs = 1
    /\ op = "none"
    /\ engine = <<>>
    /\ resolutions = <<>>
    /\ calls = <<>>
    /\ constructed = 0
    /\ compose_file = TRUE
    /\ host = QuietHost

InitEnv ==
    /\ text \in Texts
    /\ parsed = [done |-> FALSE, env |-> EmptyDict]
    /\ LocIdle
    /\ ProcIdle

ParseEnvFile ==
    /\ ~parsed.done
    /\ parsed' = [done |-> TRUE, env |-> LoadEnv(text)]
    /\ UNCHANGED <<text, locVars, fsVars, os_environ, procVars, resVars, walk,
                   cmdVars, constructed>>

NextEnv == ParseEnvFile

SpecEnv == InitEnv /\ [][NextEnv]_vars

(***************************************************************************)
(* load_project.find_root (project.py): the upward walk                    *)
(***************************************************************************)
MarkerKinds == {"none", "file", "dir"}
Dirs == 0..MaxDepth

\* Path.parent: the parent of "/" is "/" itself
Parent(d) == IF d = 0 THEN 0 ELSE d - 1

\* (current / DIR_NAME).is_dir()
IsDir(m, d) == m[d] = "dir"

\* The while loop of find_root, from `current`; `visited` lists the
\* directories whose marker the loop has tested so far.
RECURSIVE FindRootFrom(_, _, _)
FindRootFrom(m, current, visited) ==
    IF current # Parent(current)
    THEN IF IsDir(m, current)
         THEN [ok |-> TRUE, dir |-> current, visited |-> Append(visited, current)]
         ELSE FindRootFrom(m, Parent(current), Append(visited, current))
    ELSE [ok |-> FALSE, dir |-> 0, visited |-> visited]

\* Mutant of FindRoot: keeps walking after a match and returns the match
\* nearest to "/".
FindRoot_Farthest(m, c) ==
    LET hits == {d \in 1..c : IsDir(m, d)}
        top == CHOOSE d \in hits : \A e \in hits : d <= e
    IN  IF hits = {}
        THEN [ok |-> FALSE, dir |-> 0, visited |-> [i \in 1..c |-> c + 1 - i]]
        ELSE [ok |-> TRUE, dir |-> top,
              visited |-> [i \in 1..(c + 1 - top) |-> c + 1 - i]]

\* find_root() with Path.cwd() = c
FindRoot(m, c) == FindRootFrom(m, c, <<>>)

(***************************************************************************)
(* SpecLocate: find_root on every chain of directories                     *)
(***************************************************************************)
EnvIdle ==
    /\ text = <<>>
    /\ parsed = [done |-> FALSE, env |-> EmptyDict]

InitLocate ==
    /\ cwd \in Dirs
    /\ marker \in [Dirs -> MarkerKinds]
    /\ found = [done |-> FALSE, res |-> NoPath]
    /\ walk = WalkIdle
    /\ EnvIdle
    /\ ProcIdle

Locate ==
    /\ ~found.done
    /\ found' = [done |-> TRUE, res |-> FindRoot(marker, cwd)]
    /\ UNCHANGED <<cwd, marker, envVars, fsVars, os_environ, procVars, resVars,
                   walk, cmdVars, constructed>>

NextLocate == Locate

SpecLocate == InitLocate /\ [][NextLocate]_vars

(***************************************************************************)
(* SpecWalk: find_root's loop, one iteration at a time                     *)
(***************************************************************************)
\* Mutant of LoopGoesOn: the loop has no exit test.
LoopGoesOn_Always(current) == TRUE

\* Line 91: while current != current.parent
LoopGoesOn(current) == current # Parent(current)

InitWalk ==
    /\ cwd \in Dirs
    /\ marker \in [Dirs -> MarkerKinds]
    /\ found = [done |-> FALSE, res |-> NoPath]
    /\ walk = WalkIdle
    /\ EnvIdle
    /\ ProcIdle

\* Line 90: current = Path.cwd()
WalkStart ==
    /\ walk.state = "idle"
    /\ walk' = [state |-> "walking", current |-> cwd]
    /\ UNCHANGED <<cwd, marker, found, envVars, fsVars, os_environ, procVars,
                   resVars, cmdVars, constructed>>

\* Lines 91-95: the loop test and, when it passes, one run of the body
WalkStep ==
    /\ walk.state = "walking"
    /\ walk' =
          IF LoopGoesOn(walk.current)
          THEN IF IsDir(marker, walk.current)
               THEN [state |-> "found", current |-> walk.current]
               ELSE [state |-> "walking", current |-> Parent(walk.current)]
          ELSE [state |-> "none", current |-> walk.current]
    /\ UNCHANGED <<cwd, marker, found, envVars, fsVars, os_environ, procVars,
                   resVars, cmdVars, constructed>>

NextWalk ==
    \/ WalkStart
    \/ WalkStep

\* The interpreter runs the loop on: a step that can be taken is taken.
SpecWalk == InitWalk /\ [][NextWalk]_vars /\ WF_vars(NextWalk)

(***************************************************************************)
(* config.py: the names of the reserved environment keys                   *)
(***************************************************************************)
EnvName ==
    [project_name   |-> <<"PROJECT_NAME">>,
     project_root   |-> <<"PROJECT_ROOT">>,
     env_file       |-> <<"ENV_FILE">>,
     dip_dir        |-> <<"DIP_DIR">>,
     container_root |-> <<"CONTAINER_ROOT">>,
     host_uid       |-> <<"HOST_UID">>,
     host_gid       |-> <<"HOST_GID">>,
     compose_name   |-> <<"COMPOSE_PROJECT_NAME">>]

\* config.container_root
DefaultContainerRoot == <<"/var/www">>

\* str(os.getuid()), str(os.getgid())
HostUid == <<"1000">>
HostGid == <<"100">>

(***************************************************************************)
(* Paths: the directory at depth d of the chain, and the files below it    *)
(***************************************************************************)
RECURSIVE PathOf(_)
PathOf(d) == IF d = 0 THEN <<"/">> ELSE
             IF d = 1 THEN <<"/", "d">> ELSE PathOf(d - 1) \o <<"/", "d">>

\* root / DIR_NAME, self.dip_dir / ".env"
DipDirOf(d)  == IF d = 0 THEN <<"/", ".dip">> ELSE PathOf(d) \o <<"/", ".dip">>
EnvFileOf(d) == DipDirOf(d) \o <<"/", ".env">>

(***************************************************************************)
(* ProjectConfig.__init__ (project.py)                                     *)
(***************************************************************************)
\* Text written through a file opened with mode 'w' (newline=None): "\n" is
\* written as os.linesep, which is "\n" on the POSIX hosts the tool runs on
\* (it calls os.getuid).
WriteText(s) == s

\* d.get(k): None when the key is missing
PyNone == <<"None">>
DictGet(d, k) == IF k \in DOMAIN d THEN d[k] ELSE PyNone

\* truth value of an Optional[str]
IsTruthy(v) == v # PyNone /\ v # <<>>

\* Mutant of EnsureEnvFile: opens ".env" for writing before it looks for the
\* template, so a failed first run leaves an empty ".env" behind.
EnsureEnvFile_TouchFirst(envf, deff) ==
    IF envf.exists THEN [exc |-> "none", file |-> envf]
    ELSE IF deff.exists /\ deff.readable
    THEN [exc |-> "none",
          file |-> [exists |-> TRUE, readable |-> TRUE,
                    bytes |-> ReadText(deff.bytes)]]
    ELSE [exc |-> IF deff.exists THEN "RuntimeError" ELSE "FileNotFoundError",
          file |-> [exists |-> TRUE, readable |-> TRUE, bytes |-> <<>>]]

\* Lines 29-36: the env file the constructor goes on to read, after the
\* first-run copy of the template; exc is the exception raised, if any.
EnsureEnvFile(envf, deff) ==
    IF envf.exists THEN [exc |-> "none", file |-> envf]
    ELSE IF deff.exists
    THEN IF deff.readable
         THEN [exc |-> "none",
               file |-> [exists |-> TRUE, readable |-> TRUE,
                         bytes |-> WriteText(ReadText(deff.bytes))]]
         \* open('w') has created the file before read_text() raises
         ELSE [exc |-> "RuntimeError",
               file |-> [exists |-> TRUE, readable |-> TRUE, bytes |-> <<>>]]
    ELSE [exc |-> "FileNotFoundError", file |-> envf]

\* Mutant of RequireProjectName: the check is dropped.
RequireProjectName_Lax(project_name) == "none"

\* Lines 45-49: the exception raised for the loaded project name
RequireProjectName(project_name) ==
    IF ~IsTruthy(project_name) THEN "ValueError" ELSE "none"

Failed(exc, file, msgs) ==
    [exc |-> exc, env_file |-> file, obj |-> NoProject, msgs |-> msgs]

\* Lines 45-66: the rest of the constructor, for the env file `file` and
\* the mapping loaded from it
ConfigFromEnv(root, file, env_name) ==
    IF RequireProjectName(DictGet(env_name, EnvName.project_name)) # "none"
    THEN Failed(RequireProjectName(DictGet(env_name, EnvName.project_name)),
                file, <<>>)
    ELSE [exc |-> "none",
          env_file |-> file,
          obj |-> [set |-> TRUE,
                   root_dir |-> root,
                   project_name |-> DictGet(env_name, EnvName.project_name),
                   container_dir |->
                       IF IsTruthy(DictGet(env_name, EnvName.container_root))
                       THEN DictGet(env_name, EnvName.container_root)
                       ELSE DefaultContainerRoot,
                   env_name |-> env_name],
          msgs |-> IF IsTruthy(DictGet(env_name, EnvName.container_root))
                   THEN <<>>
                   ELSE <<"warning: CONTAINER_ROOT is not set">>]

\* Lines 38-66: the constructor from the file check's outcome on
ConfigFromEnsured(root, ensured) ==
    IF ensured.exc # "none"
    THEN Failed(ensured.exc, ensured.file, <<>>)
    ELSE ConfigFromEnv(root, ensured.file, LoadEnv(ensured.file.bytes))

\* ProjectConfig(root) with the two files as they are on disk: the exception
\* raised ("none" when the object is built), the env file afterwards, the
\* object and the messages printed.
ProjectConfigInit(root, envf, deff) ==
    ConfigFromEnsured(root, EnsureEnvFile(envf, deff))

\* Mutant of ReservedEnv: the compose key is left out of the computed
\* entries.
ReservedEnv_NoComposeName(p) ==
    [k \in {EnvName[f] : f \in DOMAIN EnvName \ {"compose_name"}} |->
        CASE k = EnvName.project_root   -> PathOf(p.root_dir)
          [] k = EnvName.project_name   -> p.project_name
          [] k = EnvName.container_root -> p.container_dir
          [] k = EnvName.dip_dir        -> DipDirOf(p.root_dir)
          [] k = EnvName.env_file       -> EnvFileOf(p.root_dir)
          [] k = EnvName.host_uid       -> HostUid
          [] k = EnvName.host_gid       -> HostGid]

\* The eight computed entries of get_env
ReservedEnv(p) ==
    LET e1 == DictSet(EmptyDict, EnvName.project_root, PathOf(p.root_dir))
        e2 == DictSet(e1, EnvName.project_name, p.project_name)
        e3 == DictSet(e2, EnvName.compose_name, p.project_name)
        e4 == DictSet(e3, EnvName.container_root, p.container_dir)
        e5 == DictSet(e4, EnvName.dip_dir, DipDirOf(p.root_dir))
        e6 == DictSet(e5, EnvName.env_file, EnvFileOf(p.root_dir))
        e7 == DictSet(e6, EnvName.host_uid, HostUid)
    IN  DictSet(e7, EnvName.host_gid, HostGid)

\* Mutant of EnvNameAfterGetEnv: the entries are written into self.env_name
\* itself instead of a copy.
EnvNameAfterGetEnv_InPlace(p) == DictUpdate(p.env_name, ReservedEnv(p))

\* self.env_name once get_env has returned: lines 70-71 update a copy of
\* os.environ, so the mapping loaded from the file is as it was.
EnvNameAfterGetEnv(p) == p.env_name

\* Mutant of GetEnv: the file is overlaid last, over the computed entries.
GetEnv_FileLast(p, environ) ==
    DictUpdate(DictUpdate(environ, ReservedEnv(p)), p.env_name)

\* ProjectConfig.get_env
GetEnv(p, environ) ==
    DictUpdate(DictUpdate(environ, p.env_name), ReservedEnv(p))

(***************************************************************************)
(* project.load_project and CliManager.load_project                        *)
(***************************************************************************)
\* load_project() of project.py: find the root, build the object
RootConfig(root, envf, deff) ==
    IF root.ok THEN ProjectConfigInit(root.dir, envf, deff)
    ELSE Failed("none", envf, <<>>)

ModuleLoadProject(m, c, envf, deff) == RootConfig(FindRoot(m, c), envf, deff)

\* Lines 118-126 of CliManager.load_project, `built` being the outcome of
\* lines 115-116
LoadProjectResult(proj, built, no_error) ==
    IF built.exc # "none"
    THEN [project |-> proj, env_file |-> built.env_file,
          status |-> [state |-> "raised", code |-> 1, exc |-> built.exc],
          ret |-> FALSE, msgs |-> built.msgs]
    ELSE IF built.obj.set
    THEN [project |-> built.obj, env_file |-> built.env_file,
          status |-> Running, ret |-> TRUE, msgs |-> built.msgs]
    ELSE IF no_error
    THEN [project |-> built.obj, env_file |-> built.env_file,
          status |-> Running, ret |-> FALSE,
          msgs |-> <<"warning: Not a dip project">>]
    ELSE [project |-> built.obj, env_file |-> built.env_file,
          status |-> [state |-> "exit", code |-> 1, exc |-> "none"],
          ret |-> FALSE,
          msgs |-> <<"error: Not a dip project">>]

\* The ProjectConfig(root) calls one CliManager.load_project makes: one when
\* the manager holds no project and find_root returns a directory.
Constructions(proj, m, c) ==
    IF ~proj.set /\ FindRoot(m, c).ok THEN 1 ELSE 0

\* Mutant of ManagerLoadProject: the project is built again on every call.
ManagerLoadProject_Rebuild(proj, m, c, envf, deff, no_error) ==
    LoadProjectResult(proj, ModuleLoadProject(m, c, envf, deff), no_error)

\* CliManager.load_project(no_error): the manager's project, the env file,
\* the process status, the value returned and the messages printed.
ManagerLoadProject(proj, m, c, envf, deff, no_error) ==
    LoadProjectResult(
        proj,
        IF proj.set
        THEN [exc |-> "none", env_file |-> envf, obj |-> proj, msgs |-> <<>>]
        ELSE ModuleLoadProject(m, c, envf, deff),
        no_error)

(***************************************************************************)
(* Spec: CLI invocations that build the project context and its            *)
(* subprocess environment                                                  *)
(***************************************************************************)
Key(a) == <<a>>
Line(k, v) == <<k, EQ>> \o v \o <<LF>>

\* Env files of the model
T_full ==
    Line("PROJECT_NAME", <<"proj">>) \o Line("CONTAINER_ROOT", <<"/srv">>)
T_name == <<SP, "PROJECT_NAME", SP, EQ, SP, "proj", SP, LF>> \o <<HASH, "c", LF>>
T_shadow ==
    Line("PROJECT_NAME", <<"proj">>) \o Line("COMPOSE_PROJECT_NAME", <<"evil">>)
    \o Line("HOST_UID", <<"0">>) \o Line("FOO", <<"file", EQ, "1">>)
T_noname == Line("FOO", <<"file">>) \o <<"PROJECT_NAME", LF>>
T_emptyname == Line("PROJECT_NAME", <<>>) \o Line("CONTAINER_ROOT", <<"/srv">>)
T_crlf == <<"PROJECT_NAME", EQ, "other", CR, LF>>
T_twice == Line("PROJECT_NAME", <<"proj">>) \o Line("PROJECT_NAME", <<"other">>)

EnvTexts == {T_full, T_name, T_shadow, T_noname, T_emptyname, T_crlf, T_twice}

EnvFiles == {NoFile} \cup
    {[exists |-> TRUE, readable |-> TRUE, bytes |-> t] : t \in EnvTexts}
TemplateFiles == EnvFiles \cup
    {[exists |-> TRUE, readable |-> FALSE, bytes |-> T_full]}

\* Inherited environments of the model
Environs ==
    {EmptyDict,
     DictSet(DictSet(DictSet(EmptyDict, Key("PATH"), <<"/bin">>),
                     Key("FOO"), <<"inherited">>),
             Key("COMPOSE_PROJECT_NAME"), <<"outer">>)}

\* Directory chains of the model: cwd is the deepest directory and at most
\* one directory of the chain holds a ".dip" directory.
ProjectTrees ==
    {[d \in Dirs |-> "none"]} \cup
    {[d \in Dirs |-> IF d = r THEN "dir" ELSE "none"] : r \in Dirs}

Init ==
    /\ EnvIdle
    /\ cwd = MaxDepth
    /\ marker \in ProjectTrees
    /\ found = [done |-> FALSE, res |-> NoPath]
    /\ env_file \in EnvFiles
    /\ default_env_file \in TemplateFiles
    /\ os_environ \in Environs
    /\ project = NoProject
    /\ status = Running
    /\ output = <<>>
    /\ env_out = [done |-> FALSE, env |-> EmptyDict]
    /\ runs = 1
    /\ op = "none"
    /\ engine = <<>>
    /\ resolutions = <<>>
    /\ walk = WalkIdle
    /\ calls = <<>>
    /\ constructed = 0
    /\ compose_file = TRUE
    /\ host = QuietHost

LoadProjectDone(r) ==
    /\ project' = r.project
    /\ env_file' = r.env_file
    /\ status' = r.status
    /\ output' = output \o r.msgs

\* A command calls self.load_project(no_error)
LoadProject(no_error) ==
    /\ status.state = "running"
    /\ Len(output) < MaxOutput
    /\ LoadProjectDone(ManagerLoadProject(project, marker, cwd, env_file,
                                          default_env_file, no_error))
    /\ constructed' = constructed + Constructions(project, marker, cwd)
    /\ op' = "load_project"
    /\ UNCHANGED <<envVars, locVars, default_env_file, os_environ, env_out, runs,
                   resVars, walk, cmdVars>>

\* A command calls self.project.get_env()
CallGetEnv ==
    /\ status.state = "running"
    /\ project.set
    /\ env_out' = [done |-> TRUE, env |-> GetEnv(project, os_environ)]
    /\ project' = [project EXCEPT !.env_name = EnvNameAfterGetEnv(project)]
    /\ op' = "get_env"
    /\ UNCHANGED <<envVars, locVars, fsVars, os_environ, status,
                   output, runs, resVars, walk, cmdVars, constructed>>

\* The command returns and the process ends
Finish ==
    /\ status.state = "running"
    /\ status' = [state |-> "exit", code |-> 0, exc |-> "none"]
    /\ op' = "finish"
    /\ UNCHANGED <<envVars, locVars, fsVars, os_environ, project, output,
                   env_out, runs, resVars, walk, cmdVars, constructed>>

\* The user edits, creates or deletes the template between two invocations
EditTemplate ==
    /\ status.state # "running"
    /\ \E f \in TemplateFiles :
          /\ f # default_env_file
          /\ default_env_file' = f
    /\ op' = "edit_template"
    /\ UNCHANGED <<envVars, locVars, env_file, os_environ, project, status,
                   output, env_out, runs, resVars, walk, cmdVars, constructed>>

\* The user invokes the CLI again: a new process, a new CliManager
NewRun ==
    /\ status.state # "running"
    /\ runs < MaxRuns
    /\ runs' = runs + 1
    /\ project' = NoProject
    /\ status' = Running
    /\ output' = <<>>
    /\ env_out' = [done |-> FALSE, env |-> EmptyDict]
    /\ op' = "none"
    /\ resolutions' = <<>>
    /\ calls' = <<>>
    /\ constructed' = 0
    /\ UNCHANGED <<envVars, locVars, fsVars, os_environ, engine, walk,
                   compose_file, host>>

Next ==
    \/ \E no_error \in BOOLEAN : LoadProject(no_error)
    \/ CallGetEnv
    \/ Finish
    \/ EditTemplate
    \/ NewRun

Spec == Init /\ [][Next]_vars

(***************************************************************************)
(* models.py and CliManager.get_containers / get_container (manager.py)    *)
(***************************************************************************)
\* s.rsplit(' ', 1)[0]
RSplitHead(s) ==
    IF Contains(s, SP)
    THEN SubSeq(s, 1, (CHOOSE x \in 1..Len(s) :
                          s[x] = SP /\ \A y \in (x + 1)..Len(s) : s[y] # SP) - 1)
    ELSE s

\* DockerContainer.from_dict(data.get('Service'), data)
FromDict(service_name, data) ==
    [id      |-> data.ID,
     names   |-> data.Names,
     service |-> service_name,
     state   |-> data.State,
     status  |-> data.Status,
     created |-> RSplitHead(data.CreatedAt)]

\* The loop of get_containers over the rows printed by "compose ps -a"
RECURSIVE CollectContainers(_, _)
CollectContainers(rows, running) ==
    IF rows = <<>> THEN <<>>
    ELSE LET container == FromDict(Head(rows).Service, Head(rows))
             rest == CollectContainers(Tail(rows), running)
         IN  IF ~running \/ container.status = <<"running">>
             THEN <<container>> \o rest
             ELSE rest

\* Mutant of GetContainers: the list of the first query of the process is
\* kept and returned again.
GetContainers_Cached(rows, ps_ok, running) ==
    IF ps_ok
    THEN [containers |-> IF resolutions # <<>> /\ resolutions[1].ps_ok
                         THEN resolutions[1].listed
                         ELSE CollectContainers(rows, running),
          msgs |-> <<>>]
    ELSE [containers |-> <<>>, msgs |-> <<"error: Command failed">>]

\* get_containers(running) once the health checks and load_project have
\* passed: the list returned and the messages printed.  ps_ok is whether
\* "compose ps" exited with status zero.
GetContainers(rows, ps_ok, running) ==
    IF ps_ok
    THEN [containers |-> CollectContainers(rows, running), msgs |-> <<>>]
    ELSE [containers |-> <<>>, msgs |-> <<"error: Command failed">>]

NoContainer ==
    [id |-> <<>>, names |-> <<>>, service |-> <<>>, state |-> <<>>,
     status |-> <<>>, created |-> <<>>]

\* Mutant of FirstMatch: the name prefix is not looked at.
RECURSIVE FirstMatch_ServiceOnly(_, _, _)
FirstMatch_ServiceOnly(containers, project_name, service) ==
    IF containers = <<>> THEN [some |-> FALSE, cntr |-> NoContainer]
    ELSE IF Head(containers).service = service
         THEN [some |-> TRUE, cntr |-> Head(containers)]
         ELSE FirstMatch_ServiceOnly(Tail(containers), project_name, service)

\* Mutant of FirstMatch: a running match is preferred to an earlier one.
FirstMatch_PreferRunning(containers, project_name, service) ==
    LET hit(i) == /\ containers[i].service = service
                  /\ StartsWith(containers[i].names,
                                project_name \o <<"-">> \o service)
        hits == {i \in 1..Len(containers) : hit(i)}
        up == {i \in hits : containers[i].state = <<"running">>}
        pick == IF up # {} THEN CHOOSE i \in up : \A j \in up : i <= j
                ELSE CHOOSE i \in hits : \A j \in hits : i <= j
    IN  IF hits = {} THEN [some |-> FALSE, cntr |-> NoContainer]
        ELSE [some |-> TRUE, cntr |-> containers[pick]]

\* Lines 132-136 of get_container: the first container of the list with the
\* service and the name prefix
RECURSIVE FirstMatch(_, _, _)
FirstMatch(containers, project_name, service) ==
    IF containers = <<>> THEN [some |-> FALSE, cntr |-> NoContainer]
    ELSE IF /\ Head(containers).service = service
            /\ StartsWith(Head(containers).names,
                          project_name \o <<"-">> \o service)
         THEN [some |-> TRUE, cntr |-> Head(containers)]
         ELSE FirstMatch(Tail(containers), project_name, service)

Exit1 == [state |-> "exit", code |-> 1, exc |-> "none"]

\* Mutant of NoMatch: a missing container is fatal for every caller.
NoMatch_AlwaysFatal(no_error) ==
    [status |-> Exit1, msgs |-> <<"error: Container for service not found">>]

\* Lines 138-143 of get_container: no container matched
NoMatch(no_error) ==
    IF ~no_error
    THEN [status |-> Exit1, msgs |-> <<"error: Container for service not found">>]
    ELSE [status |-> Running, msgs |-> <<>>]

DaemonDown == <<"error: Docker daemon is not running">>

Stopped(p, f, st, msgs) ==
    [project |-> p, env_file |-> f, status |-> st, msgs |-> msgs,
     reached |-> FALSE, ps_ok |-> FALSE, listed |-> <<>>,
     some |-> FALSE, cntr |-> NoContainer]

\* Lines 132-143 of get_container, `got` being what get_containers returned
Resolve(lp, got, hit, miss, ps_ok) ==
    [project |-> lp.project, env_file |-> lp.env_file,
     status |-> IF hit.some THEN Running ELSE miss.status,
     msgs |-> lp.msgs \o got.msgs \o (IF hit.some THEN <<>> ELSE miss.msgs),
     reached |-> TRUE, ps_ok |-> ps_ok, listed |-> got.containers,
     some |-> hit.some, cntr |-> hit.cntr]

ResolveIn(lp, got, service, no_error, ps_ok) ==
    Resolve(lp, got,
            FirstMatch(got.containers, lp.project.project_name, service),
            NoMatch(no_error), ps_ok)

\* get_container from the first health check on, `lp` being the outcome of
\* the load_project call of get_containers
GetContainerFrom(proj, envf, lp, rows, service, no_error, up1, up2, ps_ok) ==
    IF ~up1 THEN Stopped(proj, envf, Exit1, DaemonDown)
    ELSE IF lp.status.state # "running"
    THEN Stopped(lp.project, lp.env_file, lp.status, lp.msgs)
    ELSE IF ~up2
    THEN Stopped(lp.project, lp.env_file, Exit1, lp.msgs \o DaemonDown)
    ELSE ResolveIn(lp, GetContainers(rows, ps_ok, FALSE), service, no_error,
                   ps_ok)

\* get_container(service, no_error).  up1 and up2 are the outcomes of the
\* health checks of get_containers and of compose, ps_ok that of
\* "compose ps".  reached tells whether the call got as far as matching.
GetContainerCall(proj, m, c, envf, deff, rows, service, no_error, up1, up2, ps_ok) ==
    GetContainerFrom(proj, envf,
                     ManagerLoadProject(proj, m, c, envf, deff, FALSE),
                     rows, service, no_error, up1, up2, ps_ok)

(***************************************************************************)
(* SpecResolve: a process that resolves services to containers             *)
(***************************************************************************)
Row(id, names, service, state, status_text, created) ==
    [ID |-> id, Names |-> names, Service |-> service, State |-> state,
     Status |-> status_text, CreatedAt |-> created]

\* Rows of the model.  Names are spelled character by character: project
\* "p" or "o", service "w" or "d".
RowPool ==
    {Row(<<"1">>, <<"p", "-", "w", "-", "1">>, <<"w">>, <<"running">>,
         <<"Up", SP, "2", SP, "hours">>, <<"t1", SP, "UTC">>),
     Row(<<"2">>, <<"p", "-", "w", "-", "2">>, <<"w">>, <<"exited">>,
         <<"Exited", SP, "(0)">>, <<"t2", SP, "UTC">>),
     Row(<<"3">>, <<"o", "-", "w", "-", "1">>, <<"w">>, <<"running">>,
         <<"Up", SP, "2", SP, "hours">>, <<"t1", SP, "UTC">>),
     Row(<<"4">>, <<"p", "-", "w", "d", "-", "1">>, <<"d">>, <<"running">>,
         <<"Up", SP, "2", SP, "hours">>, <<"t3", SP, "UTC">>),
     Row(<<"5">>, <<"p", "-", "d", "-", "1">>, <<"d">>, <<"exited">>,
         <<"Exited", SP, "(1)">>, <<"t2", SP, "UTC">>)}

\* Listings: every sequence of distinct rows
Listings ==
    UNION {{l \in [1..n -> RowPool] :
               \A i, j \in 1..n : l[i] = l[j] => i = j} : n \in 0..MaxContainers}

Services == {<<"w">>, <<"d">>, <<"x">>}

T_p == Line("PROJECT_NAME", <<"p">>) \o Line("CONTAINER_ROOT", <<"/srv">>)
T_o == Line("PROJECT_NAME", <<"o">>) \o Line("CONTAINER_ROOT", <<"/srv">>)

InitResolve ==
    /\ EnvIdle
    /\ cwd = MaxDepth
    /\ marker \in {[d \in Dirs |-> "none"],
                   [d \in Dirs |-> IF d = 1 THEN "dir" ELSE "none"]}
    /\ found = [done |-> FALSE, res |-> NoPath]
    /\ env_file \in {NoFile} \cup
          {[exists |-> TRUE, readable |-> TRUE, bytes |-> t] : t \in {T_p, T_o}}
    /\ default_env_file = NoFile
    /\ os_environ = EmptyDict
    /\ project = NoProject
    /\ status = Running
    /\ output = <<>>
    /\ env_out = [done |-> FALSE, env |-> EmptyDict]
    /\ runs = 1
    /\ op = "none"
    /\ engine \in Listings
    /\ resolutions = <<>>
    /\ walk = WalkIdle
    /\ calls = <<>>
    /\ constructed = 0
    /\ compose_file = TRUE
    /\ host = QuietHost

\* One subprocess.run: what is run, the environment the child gets and how
\* it ended
Call(kind, argv, file, env, outcome, rc) ==
    [kind |-> kind, argv |-> argv, file |-> file, env |-> env,
     outcome |-> outcome, rc |-> rc]

\* self.project.compose_file
ComposeFileOf(d) == DipDirOf(d) \o <<"/", "docker-compose.yml">>

Resolution(service, no_error, r) ==
    [service |-> service, no_error |-> no_error, rows |-> engine,
     ps_ok |-> r.ps_ok,
     listed |-> r.listed, some |-> r.some, cntr |-> r.cntr,
     returned |-> r.status.state = "running"]

GetContainerDone(service, no_error, r) ==
    /\ project' = r.project
    /\ env_file' = r.env_file
    /\ status' = r.status
    /\ output' = output \o r.msgs
    /\ resolutions' =
          IF r.reached
          THEN Append(resolutions, Resolution(service, no_error, r))
          ELSE resolutions
    /\ calls' =
          IF r.reached
          THEN Append(calls, Call("compose",
                                  <<"docker", "compose", "ps", "-a",
                                    "--format", "json">>,
                                  ComposeFileOf(r.project.root_dir),
                                  GetEnv(r.project, os_environ),
                                  IF r.ps_ok THEN "ok" ELSE "nonzero",
                                  IF r.ps_ok THEN 0 ELSE 1))
          ELSE calls

\* A command calls self.get_container(service, no_error)
GetContainer(service, no_error) ==
    /\ status.state = "running"
    /\ Len(resolutions) < MaxCalls
    /\ \E up1, up2, ps_ok \in BOOLEAN :
          GetContainerDone(service, no_error,
              GetContainerCall(project, marker, cwd, env_file,
                               default_env_file, engine, service,
                               no_error, up1, up2, ps_ok))
    /\ constructed' = constructed + Constructions(project, marker, cwd)
    /\ op' = "get_container"
    /\ UNCHANGED <<envVars, locVars, default_env_file, os_environ, env_out,
                   runs, engine, walk, compose_file, host>>

\* Between two calls of the process the engine's containers change: the
\* one listed first is removed
EngineChanges ==
    /\ status.state = "running"
    /\ resolutions # <<>>
    /\ Len(resolutions) < MaxCalls
    /\ engine # <<>>
    /\ engine' = Tail(engine)
    /\ UNCHANGED <<envVars, locVars, fsVars, os_environ, procVars,
                   resolutions, walk, cmdVars, constructed>>

NextResolve ==
    \/ \E service \in Services, no_error \in BOOLEAN :
          GetContainer(service, no_error)
    \/ EngineChanges
    \/ Finish

SpecResolve == InitResolve /\ [][NextResolve]_vars

(***************************************************************************)
(* CliManager: the external processes a command runs (manager.py)          *)
(***************************************************************************)
\* How "docker info" can end: exit status zero, CalledProcessError,
\* FileNotFoundError, TimeoutExpired (the 5 second timeout)
HealthOutcomes == {"ok", "nonzero", "missing", "timeout"}

\* Which health check of a handler fails, if any, and how
Failures ==
    {[at |-> 0, how |-> "ok"]} \cup
    {[at |-> n, how |-> h] : n \in 1..MaxHealthChecks,
                             h \in HealthOutcomes \ {"ok"}}

HealthOutcome(n, fail) == IF fail.at = n THEN fail.how ELSE "ok"

\* Exit statuses of the external commands; a negative returncode is a child
\* killed by a signal
ProbeCodes  == {0, 1}
ReturnCodes == {0, 1, 2, 255, -9}

\* "docker compose -f <file>" cannot succeed without the file
ComposeCodes == IF compose_file THEN ProbeCodes ELSE ProbeCodes \ {0}

\* The process as a handler runs: the manager's project, ".env", the process
\* status, what was printed and run so far, the health checks made by this
\* handler, the value the last call returned, the container resolved and
\* the host the handler acts on.
Start ==
    [project |-> project, env_file |-> env_file, status |-> Running,
     output |-> output, calls |-> calls, constructed |-> constructed,
     nh |-> 0, ret |-> FALSE, cntr |-> NoContainer, host |-> host]

\* Nothing after sys.exit or a raised exception runs
Alive(s) == s.status.state = "running"

Raised(exc) == [state |-> "raised", code |-> 1, exc |-> exc]

\* sys.exit(code) with an int: the low eight bits are the exit status
SysExit(code) == [state |-> "exit", code |-> code % 256, exc |-> "none"]

\* self.output.<level>(message)
Say(s, msg) ==
    IF ~Alive(s) THEN s ELSE [s EXCEPT !.output = Append(@, msg)]

\* The subprocess.run of is_running: no env argument, so the child inherits
\* os.environ
HealthCall(outcome) ==
    Call("health", <<"docker", "info">>, <<>>, os_environ, outcome,
         IF outcome = "ok" THEN 0 ELSE 1)

\* Mutant of IsRunning: the failure is reported and the caller goes on.
IsRunning_NoExit(s, fail) ==
    IF ~Alive(s) THEN s
    ELSE [s EXCEPT
            !.nh = @ + 1,
            !.calls = Append(@, HealthCall(HealthOutcome(s.nh + 1, fail))),
            !.output = IF HealthOutcome(s.nh + 1, fail) = "ok"
                       THEN @ ELSE @ \o DaemonDown]

\* is_running: the three exceptions of the except clause all end in
\* sys.exit(1)
IsRunning(s, fail) ==
    IF ~Alive(s) THEN s
    ELSE [s EXCEPT
            !.nh = @ + 1,
            !.calls = Append(@, HealthCall(HealthOutcome(s.nh + 1, fail))),
            !.output = IF HealthOutcome(s.nh + 1, fail) = "ok"
                       THEN @ ELSE @ \o DaemonDown,
            !.status = IF HealthOutcome(s.nh + 1, fail) = "ok"
                       THEN @ ELSE Exit1]

\* Lines 115-126 applied to the process, `r` being ManagerLoadProject's result
LoadProjectApply(s, r) ==
    IF ~Alive(s) THEN s
    ELSE [s EXCEPT
            !.project = r.project,
            !.env_file = r.env_file,
            !.status = r.status,
            !.output = @ \o r.msgs,
            !.constructed = @ + Constructions(s.project, marker, cwd),
            !.ret = r.ret]

\* self.load_project(no_error)
LoadProjectStep(s, no_error) ==
    LoadProjectApply(s, ManagerLoadProject(s.project, marker, cwd, s.env_file,
                                           default_env_file, no_error))

\* Lines 77-85 of docker: subprocess.run without env; check=True turns a
\* non-zero exit into CalledProcessError
DockerRun(s, argv, rc, check) ==
    IF ~Alive(s) THEN s
    ELSE [s EXCEPT
            !.calls = Append(@, Call("docker", <<"docker">> \o argv, <<>>,
                                     os_environ,
                                     IF rc = 0 THEN "ok" ELSE "nonzero", rc)),
            !.status = IF check /\ rc # 0
                       THEN Raised("CalledProcessError") ELSE @,
            !.ret = rc]

\* self.docker(args, check=check)
Docker(s, fail, argv, rc, check) ==
    DockerRun(IsRunning(s, fail), argv, rc, check)

\* Mutant of ComposeRun: the env argument is left out, as in docker().
ComposeRun_NoEnv(s, argv, rc, check) ==
    IF ~Alive(s) THEN s
    ELSE IF ~s.project.set THEN [s EXCEPT !.status = Raised("RuntimeError")]
    ELSE [s EXCEPT
            !.calls = Append(@, Call("compose", <<"docker", "compose">> \o argv,
                                     ComposeFileOf(s.project.root_dir),
                                     os_environ,
                                     IF rc = 0 THEN "ok" ELSE "nonzero", rc)),
            !.status = IF check /\ rc # 0
                       THEN Raised("CalledProcessError") ELSE @,
            !.ret = rc]

\* Lines 94-111 of compose: subprocess.run with env=self.project.get_env()
ComposeRun(s, argv, rc, check) ==
    IF ~Alive(s) THEN s
    ELSE IF ~s.project.set THEN [s EXCEPT !.status = Raised("RuntimeError")]
    ELSE [s EXCEPT
            !.calls = Append(@, Call("compose", <<"docker", "compose">> \o argv,
                                     ComposeFileOf(s.project.root_dir),
                                     GetEnv(s.project, os_environ),
                                     IF rc = 0 THEN "ok" ELSE "nonzero", rc)),
            !.status = IF check /\ rc # 0
                       THEN Raised("CalledProcessError") ELSE @,
            !.ret = rc]

\* Mutant of Compose: the exit status of the child is never checked.
Compose_Unchecked(s, fail, argv, rc, check) ==
    ComposeRun(LoadProjectStep(IsRunning(s, fail), FALSE), argv, rc, FALSE)

\* self.compose(args, check=check)
Compose(s, fail, argv, rc, check) ==
    ComposeRun(LoadProjectStep(IsRunning(s, fail), FALSE), argv, rc, check)

(***************************************************************************)
(* CliManager.__init__ and is_installed                                    *)
(***************************************************************************)
\* try: ... except Exception: return False.  SystemExit is no Exception and
\* goes through.
ExceptException(s) ==
    IF s.status.state = "raised"
    THEN [s EXCEPT !.status = Running, !.ret = FALSE]
    ELSE s

\* compose() as __init__ reaches it on line 35: self.project is assigned on
\* line 36 only, so load_project's `self.project` raises AttributeError.
ComposeBeforeProject(s) ==
    IF ~Alive(s) THEN s ELSE [s EXCEPT !.status = Raised("AttributeError")]

\* Mutant of IsInstalled: self.project is None by the time the check runs,
\* so compose() goes through load_project().
IsInstalled_ProjectFirst(s, fail) ==
    ExceptException(Compose(s, fail, <<"version">>, 0, TRUE))

\* is_installed, called from __init__
IsInstalled(s, fail) ==
    ExceptException(ComposeBeforeProject(IsRunning(s, fail)))

(***************************************************************************)
(* Command handlers                                                        *)
(***************************************************************************)
\* Lines 230-242 of sysinfo: info[4] needs five lines of output
SysinfoPanel(s, lines) ==
    IF ~Alive(s) THEN s
    ELSE IF lines < 5 THEN [s EXCEPT !.status = Raised("IndexError")]
    ELSE Say(s, "panel: System Overview")

\* Lines 244-252 of sysinfo, after load_project(True) has returned
SysinfoTree(s, fail, rc) ==
    IF ~Alive(s) THEN s
    ELSE IF s.ret
    THEN Say(Compose(s, fail, <<"config", "--services">>, rc, TRUE),
             "tree: services")
    ELSE s

\* sysinfo
Sysinfo(s, fail, rc_version, rc_info, lines, rc_config) ==
    SysinfoTree(
        LoadProjectStep(
            SysinfoPanel(
                Docker(Docker(IsRunning(s, fail),
                              fail, <<"version", "--format">>, rc_version,
                              FALSE),
                       fail, <<"info", "--format">>, rc_info, FALSE),
                lines),
            TRUE),
        fail, rc_config)

\* Lines 152-164 of get_containers: the rows parsed, or the except clause
GetContainersCaught(s, running) ==
    IF Alive(s)
    THEN [s EXCEPT !.ret = GetContainers(engine, TRUE, running).containers]
    ELSE IF s.status.exc = "CalledProcessError"
    THEN [s EXCEPT
            !.status = Running,
            !.output = @ \o GetContainers(engine, FALSE, running).msgs,
            !.ret = <<>>]
    ELSE s

\* get_containers(running)
GetContainersStep(s, fail, rc, running) ==
    IF ~Alive(s) THEN s
    ELSE GetContainersCaught(
             Compose(LoadProjectStep(IsRunning(s, fail), FALSE),
                     fail, <<"ps", "-a", "--format", "json">>, rc, TRUE),
             running)

\* Lines 258-273 of status
StatusTable(s) ==
    IF ~Alive(s) THEN s
    ELSE IF Len(s.ret) = 0 THEN Say(s, "warning: No containers found")
    ELSE Say(s, "table: Project")

\* status
Status(s, fail, rc) ==
    StatusTable(GetContainersStep(LoadProjectStep(s, FALSE), fail, rc, FALSE))

\* Lines 134-143 of get_container
GetContainerMatch(s, hit, miss) ==
    IF hit.some THEN [s EXCEPT !.cntr = hit.cntr]
    ELSE [s EXCEPT !.status = miss.status, !.output = @ \o miss.msgs,
                   !.cntr = NoContainer]

GetContainerIn(s, service, no_error) ==
    IF ~Alive(s) THEN s
    ELSE GetContainerMatch(s,
             FirstMatch(s.ret, s.project.project_name, service),
             NoMatch(no_error))

\* get_container(service, no_error)
GetContainerStep(s, fail, rc, service, no_error) ==
    GetContainerIn(GetContainersStep(s, fail, rc, FALSE), service, no_error)

\* Mutant of ExecEnd: any failure ends the process with status 1.
ExecEnd_Exit1(s) ==
    IF ~Alive(s) THEN s
    ELSE IF s.ret # 0
    THEN [s EXCEPT !.output = Append(@, "error: Command exited with code"),
                   !.status = SysExit(1)]
    ELSE s

\* Lines 432-434 of exec
ExecEnd(s) ==
    IF ~Alive(s) THEN s
    ELSE IF s.ret # 0
    THEN [s EXCEPT !.output = Append(@, "error: Command exited with code"),
                   !.status = SysExit(s.ret)]
    ELSE s

\* cwd.relative_to(root_dir): the directories from root_dir down to cwd
RECURSIVE RelativeTo(_, _)
RelativeTo(c, root) ==
    IF c <= root THEN <<>> ELSE RelativeTo(c - 1, root) \o <<"/", "d">>

\* Mutant of ContainerDestPath: always the container root.
ContainerDestPath_Root(p, c) == p.container_dir

\* Lines 414-416 of exec: Path(container_dir) / relative_path.  The
\* directories of the model are one chain, so cwd is relative to root_dir
\* exactly when it is not above it.
ContainerDestPath(p, c) ==
    IF p.root_dir <= c
    THEN p.container_dir \o RelativeTo(c, p.root_dir)
    ELSE p.container_dir

\* Lines 422-431 of exec, after is_shell_exists has returned
ExecRun(s, fail, rc) ==
    IF ~Alive(s) THEN s
    ELSE ExecEnd(Docker(s, fail,
                        <<"exec", "-u">> \o HostUid \o HostGid
                            \o <<"-it", "-w">>
                            \o ContainerDestPath(s.project, cwd)
                            \o s.cntr.id
                            \o <<IF s.ret = 0 THEN "bash" ELSE "sh", "-ilc">>,
                        rc, FALSE))

\* is_shell_exists(container.id, shell_type)
IsShellExists(s, fail, shell_type, rc) ==
    IF ~Alive(s) THEN s
    ELSE Docker(s, fail, <<"exec">> \o s.cntr.id \o <<"which", shell_type>>,
                rc, FALSE)

\* exec(service, command)
Exec(s, fail, service, rc_ps, rc_which, rc) ==
    ExecRun(IsShellExists(GetContainerStep(s, fail, rc_ps, service, FALSE),
                          fail, "bash", rc_which),
            fail, rc)

\* Mutant of ShellFallback: `sh` is taken without looking at its check, as
\* exec does.
ShellFallback_Unchecked(s) ==
    IF ~Alive(s) THEN s ELSE [s EXCEPT !.ret = "sh"]

\* Lines 401-403 of shell, after is_shell_exists(container.id, "sh")
ShellFallback(s) ==
    IF ~Alive(s) THEN s
    ELSE IF s.ret = 0 THEN [s EXCEPT !.ret = "sh"]
    ELSE [Say(s, "error: No shell found in container")
             EXCEPT !.status = SysExit(1)]

\* Lines 398-403 of shell, after is_shell_exists(container.id, shell_type):
\* the shell to launch
ShellType(s, fail, shell_type, rc_sh) ==
    IF ~Alive(s) THEN s
    ELSE IF s.ret = 0 THEN [s EXCEPT !.ret = shell_type]
    ELSE ShellFallback(
             IsShellExists(Say(s, "warning: not found in container, trying sh..."),
                           fail, "sh", rc_sh))

\* Line 405 of shell
ShellLaunch(s, fail, rc) ==
    IF ~Alive(s) THEN s
    ELSE Docker(s, fail, <<"exec", "-it">> \o s.cntr.id \o <<s.ret>>, rc, FALSE)

\* shell(service, shell_type)
Shell(s, fail, service, shell_type, rc_ps, rc_which, rc_sh, rc) ==
    ShellLaunch(
        ShellType(IsShellExists(GetContainerStep(s, fail, rc_ps, service, FALSE),
                                fail, shell_type, rc_which),
                  fail, shell_type, rc_sh),
        fail, rc)

\* Lines 310-311 of top: the DockerContainer itself, not its id, is put in
\* the argument list, and docker() joins the arguments into a string
TopContainer(s, fail) ==
    IF ~Alive(IsRunning(s, fail)) THEN IsRunning(s, fail)
    ELSE [IsRunning(s, fail) EXCEPT !.status = Raised("TypeError")]

\* Lines 303-311 of top, `s.ret` being what get_containers(True) returned
TopEach(s, fail, rc) ==
    IF ~Alive(s) THEN s
    ELSE IF Len(s.ret) = 0 THEN Say(s, "warning: No running containers found")
    ELSE TopContainer(
             Say(Docker(s, fail,
                        <<"ps", "--format", "{{.Names}}", "-f", "id=">>
                            \o s.ret[1].id,
                        rc, FALSE),
                 "info: Container"),
             fail)

\* top() without a service
Top(s, fail, rc_ps, rc) ==
    TopEach(GetContainersStep(
                Say(LoadProjectStep(s, FALSE), "info: Running processes"),
                fail, rc_ps, TRUE),
            fail, rc)

\* stop
Stop(s, fail, rc) ==
    Say(Compose(Say(s, "info: Stopping containers..."),
                fail, <<"stop">>, rc, TRUE),
        "success: All containers stopped")

\* reset: compose's check defaults to True, and reset catches nothing
Reset(s, fail, rc_stop, rc_rm, rc_up) ==
    Say(Compose(
            Say(Compose(
                    Say(Compose(Say(s, "warning: Stopping containers..."),
                                fail, <<"stop">>, rc_stop, TRUE),
                        "warning: Removing containers..."),
                    fail, <<"rm", "-f">>, rc_rm, TRUE),
                "success: Starting containers..."),
            fail, <<"up", "-d">>, rc_up, TRUE),
        "success: Container reset completed")

\* Lines 439-450 of exec_custom; has_cmd: the command file exists and is
\* executable
ExecCustomRun(s, has_cmd, rc) ==
    IF ~Alive(s) THEN s
    ELSE IF has_cmd
    THEN [s EXCEPT
            !.calls = Append(@, Call("custom", <<"command">>, <<>>,
                                     GetEnv(s.project, os_environ),
                                     IF rc = 0 THEN "ok" ELSE "nonzero", rc)),
            !.ret = TRUE]
    ELSE [s EXCEPT !.ret = FALSE]

\* exec_custom(command, args)
ExecCustom(s, has_cmd, rc) ==
    ExecCustomRun(LoadProjectStep(s, FALSE), has_cmd, rc)

(***************************************************************************)
(* Handlers that ask for confirmation, and the Traefik handlers            *)
(***************************************************************************)
\* str.lower(), on the letters the model types
Lower(t) ==
    [i \in 1..Len(t) |-> IF t[i] = "Y" THEN "y"
                         ELSE IF t[i] = "N" THEN "n" ELSE t[i]]

\* Mutant of Confirmed: anything but "n" is taken as consent.
Confirmed_NotNo(response) == Lower(response) # <<"n">>

\* Lines 519 and 584: response.lower() != 'y' cancels
Confirmed(response) == Lower(response) = <<"y">>

\* s.split(sep): the pieces between the separators, one piece for a text
\* without separator, the empty text included
RECURSIVE Split(_, _)
Split(t, sep) ==
    IF ~Contains(t, sep) THEN <<t>>
    ELSE <<SplitFirst(t, sep)[1]>> \o Split(SplitFirst(t, sep)[2], sep)

\* A string as one argument of a command line; "" stands for the empty
\* string
Arg(t) == IF t = <<>> THEN <<"">> ELSE t

\* Lines 208-209 of disconnect_network: one docker() call for every piece
\* of the split output.  The engine has no container named by the empty
\* string.
RECURSIVE DisconnectEach(_, _, _, _, _)
DisconnectEach(s, fail, n, ids, rc) ==
    IF ids = <<>> \/ ~Alive(s) THEN s
    ELSE DisconnectEach(
             Docker(s, fail,
                    <<"network", "disconnect", "-f">> \o n \o Arg(Head(ids)),
                    IF Head(ids) = <<>> THEN 1 ELSE rc, FALSE),
             fail, n, Tail(ids), rc)

\* Lines 208-212 of disconnect_network, after the docker() call of line 207
DisconnectListed(s, fail, n, rc) ==
    IF Alive(s)
    THEN DisconnectEach(s, fail, n, Split(Strip(s.host.attached), LF), rc)
    ELSE IF s.status.exc = "CalledProcessError"
    THEN [s EXCEPT !.status = SysExit(s.ret),
                   !.output = Append(@, "error: Error disconnecting network")]
    ELSE s

\* disconnect_network(network_id_or_name)
DisconnectNetwork(s, fail, n, rc_ps, rc) ==
    IF ~Alive(s) THEN s
    ELSE DisconnectListed(
             Docker(s, fail,
                    <<"ps", "-aq", "--no-trunc", "--filter", "network=">> \o n,
                    rc_ps, TRUE),
             fail, n, rc)

\* The networks "docker network ls" prints for the project
ProjectNetworks == << <<"n1">> >>

\* get_networks(project_name)
GetNetworks(s, fail, rc) ==
    IF ~Alive(Docker(s, fail, <<"network", "ls", "--filter", "label=">>, rc, TRUE))
       /\ Docker(s, fail, <<"network", "ls", "--filter", "label=">>, rc,
                 TRUE).status.exc = "CalledProcessError"
    THEN [Docker(s, fail, <<"network", "ls", "--filter", "label=">>, rc, TRUE)
             EXCEPT !.status = Running,
                    !.output = Append(@, "error: Error getting networks"),
                    !.ret = <<>>]
    ELSE [Docker(s, fail, <<"network", "ls", "--filter", "label=">>, rc, TRUE)
             EXCEPT !.ret = ProjectNetworks]

\* Lines 524-526 of remove, `s.ret` being what get_networks returned
RECURSIVE DisconnectAll(_, _, _, _, _)
DisconnectAll(s, fail, nets, rc_ps, rc) ==
    IF nets = <<>> \/ ~Alive(s) THEN s
    ELSE DisconnectAll(DisconnectNetwork(s, fail, Head(nets), rc_ps, rc),
                       fail, Tail(nets), rc_ps, rc)

\* Lines 523-531 of remove: the user has consented
RemoveResources(s, fail, rc_ls, rc_ps, rc, rc_down) ==
    Say(Compose(DisconnectAll(GetNetworks(s, fail, rc_ls), fail,
                              GetNetworks(s, fail, rc_ls).ret, rc_ps, rc),
                fail, <<"down", "--volumes", "--remove-orphans">>, rc_down,
                TRUE),
        "success: Project resources removed")

\* Lines 509-531 of remove, `s.ret` being what get_containers returned
RemoveListed(s, fail, rc_ls, rc_ps, rc, rc_down) ==
    IF ~Alive(s) THEN s
    ELSE IF s.ret = <<>> THEN Say(s, "warning: No containers found")
    ELSE IF ~Confirmed(s.host.stdin)
    THEN Say(Say(s, "warning: Removing containers and volumes?"),
             "warning: Operation cancelled")
    ELSE RemoveResources(Say(s, "warning: Removing containers and volumes?"),
                         fail, rc_ls, rc_ps, rc, rc_down)

\* remove(None)
Remove(s, fail, rc_list, rc_ls, rc_ps, rc, rc_down) ==
    RemoveListed(GetContainersStep(LoadProjectStep(s, FALSE), fail, rc_list,
                                   FALSE),
                 fail, rc_ls, rc_ps, rc, rc_down)

\* prune
Prune(s, fail, rc_system, rc_volume) ==
    IF ~Confirmed(s.host.stdin)
    THEN Say(Say(s, "panel: Warning"), "warning: Operation cancelled")
    ELSE Say(Docker(Say(Docker(Say(Say(s, "panel: Warning"),
                                   "warning: Pruning Docker system..."),
                               fail, <<"system", "prune", "-f">>, rc_system,
                               FALSE),
                        "warning: Pruning Docker volumes..."),
                    fail, <<"volume", "prune", "-f">>, rc_volume, FALSE),
             "success: System prune completed")

\* self.traefik_dir / "docker-compose.yml"
TraefikComposeFile == <<"~/.config/dip/traefik/docker-compose.yml">>

\* is_traefik_running: the probe prints the container's id when Traefik is
\* running and nothing when it is not or when the probe fails
IsTraefikRunning(s, fail, rc) ==
    IF ~Alive(Docker(s, fail, <<"ps", "--filter", "name=traefik", "--filter",
                                "status=running", "-q">>, rc, FALSE))
    THEN Docker(s, fail, <<"ps", "--filter", "name=traefik", "--filter",
                           "status=running", "-q">>, rc, FALSE)
    ELSE [Docker(s, fail, <<"ps", "--filter", "name=traefik", "--filter",
                            "status=running", "-q">>, rc, FALSE)
             EXCEPT !.ret = (rc = 0 /\ s.host.traefik_running)]

\* Line 790 of check_traefik_network: the engine refuses to create a network
\* that exists
CreateNetwork(s, fail, name, rc) ==
    IF ~Alive(IsRunning(s, fail)) THEN IsRunning(s, fail)
    ELSE IF name \in s.host.networks THEN Docker(s, fail,
             <<"network", "create", name>>, 1, FALSE)
    ELSE IF rc # 0 THEN Docker(s, fail, <<"network", "create", name>>, rc, FALSE)
    ELSE [Docker(s, fail, <<"network", "create", name>>, 0, FALSE)
             EXCEPT !.host.networks = @ \cup {name}]

\* Lines 783-790 of check_traefik_network, after the inspect call
NetworkMissing(s, fail, rc) ==
    IF Alive(s) \/ s.status.exc # "CalledProcessError" THEN s
    ELSE CreateNetwork([s EXCEPT !.status = Running], fail, "traefik_proxy", rc)

\* check_traefik_network: inspect exits with zero exactly when the network
\* exists
CheckTraefikNetwork(s, fail, rc) ==
    IF ~Alive(s) THEN s
    ELSE NetworkMissing(
             Docker(s, fail, <<"network", "inspect", "traefik_network">>,
                    IF "traefik_network" \in s.host.networks THEN 0 ELSE 1,
                    TRUE),
             fail, rc)

\* Lines 805 and 825: docker compose -f <file> up -d / down, through
\* docker(); the command succeeding starts or stops Traefik
TraefikCompose(s, fail, verb, rc) ==
    IF ~Alive(IsRunning(s, fail)) \/ rc # 0
    THEN Docker(s, fail, <<"compose", "-f">> \o TraefikComposeFile \o verb, rc,
                FALSE)
    ELSE [Docker(s, fail, <<"compose", "-f">> \o TraefikComposeFile \o verb, rc,
                 FALSE)
             EXCEPT !.host.traefik_running = (verb = <<"up", "-d">>)]

\* Lines 807-810 of start_traefik
TraefikStarted(s) ==
    IF ~Alive(s) THEN s
    ELSE IF s.ret THEN Say(s, "success: Traefik started successfully")
    ELSE Say(s, "error: Failed to start Traefik")

\* Lines 797-810 of start_traefik, after the first is_traefik_running
StartTraefikFrom(s, fail, rc_create, rc_up, rc_after) ==
    IF ~Alive(s) \/ s.ret THEN s
    ELSE IF ~s.host.traefik_compose_file
    THEN Say(s, "error: Traefik docker-compose.yml file not found")
    ELSE TraefikStarted(
             IsTraefikRunning(
                 TraefikCompose(CheckTraefikNetwork(s, fail, rc_create),
                                fail, <<"up", "-d">>, rc_up),
                 fail, rc_after))

\* start_traefik
StartTraefik(s, fail, rc_probe, rc_create, rc_up, rc_after) ==
    StartTraefikFrom(IsTraefikRunning(s, fail, rc_probe), fail, rc_create,
                     rc_up, rc_after)

\* Lines 815-827 of stop_traefik, after is_traefik_running
StopTraefikFrom(s, fail, rc) ==
    IF ~Alive(s) THEN s
    ELSE IF ~s.ret THEN Say(s, "info: Traefik is not running")
    ELSE IF ~s.host.traefik_compose_file
    THEN Say(s, "error: Traefik docker-compose.yml file not found")
    ELSE Say(TraefikCompose(s, fail, <<"down">>, rc), "success: Traefik stopped")

\* stop_traefik
StopTraefik(s, fail, rc_probe, rc) ==
    StopTraefikFrom(IsTraefikRunning(s, fail, rc_probe), fail, rc)

(***************************************************************************)
(* SpecCmd: a process that builds its CliManager and runs one command      *)
(***************************************************************************)
Starting == [state |-> "starting", code |-> 0, exc |-> "none"]

T_p_noroot == Line("PROJECT_NAME", <<"p">>)

\* Listings of the model
CmdListings ==
    {<<>>,
     <<Row(<<"3">>, <<"o", "-", "w", "-", "1">>, <<"w">>, <<"running">>,
           <<"Up", SP, "2", SP, "hours">>, <<"t1", SP, "UTC">>),
       Row(<<"1">>, <<"p", "-", "w", "-", "1">>, <<"w">>, <<"running">>,
           <<"Up", SP, "2", SP, "hours">>, <<"t1", SP, "UTC">>)>>}

InitCmd ==
    /\ EnvIdle
    /\ cwd \in {1, MaxDepth}
    /\ marker \in {[d \in Dirs |-> "none"],
                   [d \in Dirs |-> IF d = 1 THEN "dir" ELSE "none"]}
    /\ found = [done |-> FALSE, res |-> NoPath]
    /\ walk = WalkIdle
    /\ env_file \in {NoFile} \cup
          {[exists |-> TRUE, readable |-> TRUE, bytes |-> t] :
              t \in {T_p, T_p_noroot}}
    /\ default_env_file = NoFile
    /\ os_environ \in Environs
    /\ project = NoProject
    /\ status = Starting
    /\ output = <<>>
    /\ env_out = [done |-> FALSE, env |-> EmptyDict]
    /\ runs = 1
    /\ op = "none"
    /\ engine \in CmdListings
    /\ resolutions = <<>>
    /\ calls = <<>>
    /\ constructed = 0
    /\ compose_file \in BOOLEAN
    /\ host = QuietHost

\* The process after a handler has run
CmdDone(s, name) ==
    /\ project' = s.project
    /\ env_file' = s.env_file
    /\ status' = s.status
    /\ output' = s.output
    /\ calls' = s.calls
    /\ constructed' = s.constructed
    /\ host' = s.host
    /\ op' = name
    /\ UNCHANGED <<envVars, locVars, default_env_file, os_environ, env_out,
                   runs, resVars, walk, compose_file>>

\* CliManager(version, verbose)
Construct ==
    /\ status.state = "starting"
    /\ \E fail \in Failures : CmdDone(IsInstalled(Start, fail), "construct")

\* The dispatcher calls one handler of the manager it has built
Dispatch ==
    /\ status.state = "running"
    /\ op = "construct"

RunSysinfo ==
    /\ Dispatch
    /\ \E fail \in Failures, rc_version \in ProbeCodes, rc_info \in ProbeCodes,
          lines \in {1, 5}, rc_config \in ComposeCodes :
          /\ rc_info = 0 => lines = 5
          /\ CmdDone(Sysinfo(Start, fail, rc_version, rc_info, lines, rc_config),
                     "sysinfo")

RunStatus ==
    /\ Dispatch
    /\ \E fail \in Failures, rc \in ComposeCodes :
          CmdDone(Status(Start, fail, rc), "status")

RunExec ==
    /\ Dispatch
    /\ \E fail \in Failures, service \in {<<"w">>, <<"x">>},
          rc_ps \in ComposeCodes, rc_which \in ProbeCodes, rc \in ReturnCodes :
          CmdDone(Exec(Start, fail, service, rc_ps, rc_which, rc), "exec")

RunStop ==
    /\ Dispatch
    /\ \E fail \in Failures, rc \in ComposeCodes :
          CmdDone(Stop(Start, fail, rc), "stop")

RunExecCustom ==
    /\ Dispatch
    /\ \E has_cmd \in BOOLEAN, rc \in ProbeCodes :
          CmdDone(ExecCustom(Start, has_cmd, rc), "exec_custom")

RunReset ==
    /\ Dispatch
    /\ \E fail \in Failures, rc_stop \in ComposeCodes, rc_rm \in ComposeCodes,
          rc_up \in ComposeCodes :
          CmdDone(Reset(Start, fail, rc_stop, rc_rm, rc_up), "reset")

RunShell ==
    /\ Dispatch
    /\ \E fail \in Failures, shell_type \in {"bash", "sh"},
          rc_ps \in ComposeCodes, rc_which \in ProbeCodes,
          rc_sh \in ProbeCodes, rc \in ProbeCodes :
          CmdDone(Shell(Start, fail, <<"w">>, shell_type, rc_ps, rc_which,
                        rc_sh, rc),
                  "shell")

RunTop ==
    /\ Dispatch
    /\ \E fail \in Failures, rc_ps \in ComposeCodes, rc \in ProbeCodes :
          CmdDone(Top(Start, fail, rc_ps, rc), "top")

NextCmd ==
    \/ Construct
    \/ RunShell
    \/ RunTop
    \/ RunReset
    \/ RunSysinfo
    \/ RunStatus
    \/ RunExec
    \/ RunStop
    \/ RunExecCustom
    \/ Finish

SpecCmd == InitCmd /\ [][NextCmd]_vars

(***************************************************************************)
(* SpecOps: a process that runs remove, prune, or starts or stops Traefik  *)
(***************************************************************************)
\* What the user types at the prompt
Answers ==
    {<<>>, <<"y">>, <<"Y">>, <<"n">>, <<"N">>, <<"y", "e", "s">>, <<SP, "y">>}

\* What "docker ps -aq --filter network=<n>" prints: the ids of the
\* containers attached to the network, one on a line
AttachedOutputs == {<<>>, <<"1", LF>>, <<"1", LF, "3", LF>>}

\* The hosts of the model: every answer with every attachment on a host
\* without Traefik, and every state of Traefik, of its compose file and of
\* the two networks on a host where nothing is typed
Hosts ==
    {[QuietHost EXCEPT !.stdin = a, !.attached = t] :
        a \in Answers, t \in AttachedOutputs}
    \cup
    {[QuietHost EXCEPT !.traefik_running = r, !.traefik_compose_file = f,
                       !.networks = n] :
        r \in BOOLEAN, f \in BOOLEAN,
        n \in {{}, {"traefik_proxy"}, {"traefik_network"}}}

InitOps ==
    /\ EnvIdle
    /\ cwd = 1
    /\ marker \in {[d \in Dirs |-> "none"],
                   [d \in Dirs |-> IF d = 1 THEN "dir" ELSE "none"]}
    /\ found = [done |-> FALSE, res |-> NoPath]
    /\ walk = WalkIdle
    /\ env_file = [exists |-> TRUE, readable |-> TRUE, bytes |-> T_p]
    /\ default_env_file = NoFile
    /\ os_environ = EmptyDict
    /\ project = NoProject
    /\ status = Starting
    /\ output = <<>>
    /\ env_out = [done |-> FALSE, env |-> EmptyDict]
    /\ runs = 1
    /\ op = "none"
    /\ engine \in CmdListings
    /\ resolutions = <<>>
    /\ calls = <<>>
    /\ constructed = 0
    /\ compose_file \in BOOLEAN
    /\ host \in Hosts

RunRemove ==
    /\ Dispatch
    /\ \E fail \in Failures, rc_list \in ComposeCodes, rc_ls \in ProbeCodes,
          rc_ps \in ProbeCodes, rc \in ProbeCodes, rc_down \in ComposeCodes :
          CmdDone(Remove(Start, fail, rc_list, rc_ls, rc_ps, rc, rc_down),
                  "remove")

RunPrune ==
    /\ Dispatch
    /\ \E fail \in Failures, rc_system \in ProbeCodes, rc_volume \in ProbeCodes :
          CmdDone(Prune(Start, fail, rc_system, rc_volume), "prune")

RunStartTraefik ==
    /\ Dispatch
    /\ \E fail \in Failures, rc_probe \in ProbeCodes, rc_create \in ProbeCodes,
          rc_up \in ProbeCodes, rc_after \in ProbeCodes :
          CmdDone(StartTraefik(Start, fail, rc_probe, rc_create, rc_up,
                               rc_after),
                  "start_traefik")

RunStopTraefik ==
    /\ Dispatch
    /\ \E fail \in Failures, rc_probe \in ProbeCodes, rc \in ProbeCodes :
          CmdDone(StopTraefik(Start, fail, rc_probe, rc), "stop_traefik")

NextOps ==
    \/ Construct
    \/ RunRemove
    \/ RunPrune
    \/ RunStartTraefik
    \/ RunStopTraefik
    \/ Finish

SpecOps == InitOps /\ [][NextOps]_vars

(***************************************************************************)
(* Claims                                                                  *)
(***************************************************************************)
\* The directories of the chain cwd, parent(cwd), ... that hold a ".dip"
\* directory.
Marked == {d \in 0..cwd : marker[d] = "dir"}

SeqRange(s) == {s[i] : i \in 1..Len(s)}

\* C4: what find_root returns is a directory of the chain that holds a
\* ".dip" directory and no directory nearer to cwd holds one; when a nearer
\* and a farther ancestor both hold ".dip", the nearer one is returned and
\* no directory above it is looked at.
C4_NearestWins ==
    found.done =>
        /\ found.res.ok =>
              /\ found.res.dir \in Marked
              /\ \A d \in Marked : d <= found.res.dir
        /\ (\E n, f \in Marked : f < n) =>
              /\ found.res.ok
              /\ \A d \in Marked : d <= found.res.dir
              /\ \A v \in SeqRange(found.res.visited) : v >= found.res.dir

\* C4 witness: two marked ancestors, neither of them cwd nor "/", and the
\* walk has returned.
C4_Witness ==
    /\ found.done
    /\ found.res.ok
    /\ \E n, f \in Marked : 0 < f /\ f < n /\ n < cwd

\* ---- C5 reference: the mapping the text denotes, stated on positions ----
Terminators == {LF, CR}

\* <<i, j>>: a maximal run of symbols of t without a line terminator
RefSegments(t) ==
    {ij \in (1..Len(t)) \X (1..Len(t)) :
        /\ ij[1] <= ij[2]
        /\ \A x \in ij[1]..ij[2] : t[x] \notin Terminators
        /\ (ij[1] = 1 \/ t[ij[1] - 1] \in Terminators)
        /\ (ij[2] = Len(t) \/ t[ij[2] + 1] \in Terminators)}

SetMin(S) == CHOOSE x \in S : \A y \in S : x <= y
SetMax(S) == CHOOSE x \in S : \A y \in S : x >= y

\* s without its leading and trailing whitespace
RefTrim(s) ==
    LET ink == {x \in 1..Len(s) : s[x] \notin Whitespace}
    IN  IF ink = {} THEN <<>> ELSE SubSeq(s, SetMin(ink), SetMax(ink))

\* a line counts when, trimmed, it is non-blank, is no comment and has '='
RefCounts(l) ==
    LET tr == RefTrim(l)
    IN  /\ tr # <<>>
        /\ tr[1] # HASH
        /\ \E x \in 1..Len(tr) : tr[x] = EQ

RefFirstEq(l) == SetMin({x \in 1..Len(l) : l[x] = EQ})
RefKey(l)   == RefTrim(SubSeq(RefTrim(l), 1, RefFirstEq(RefTrim(l)) - 1))
RefValue(l) == RefTrim(SubSeq(RefTrim(l), RefFirstEq(RefTrim(l)) + 1, Len(RefTrim(l))))

RefEnv(t) ==
    LET segs == {ij \in RefSegments(t) : RefCounts(SubSeq(t, ij[1], ij[2]))}
        line(ij) == SubSeq(t, ij[1], ij[2])
        keys == {RefKey(line(ij)) : ij \in segs}
        last(k) == CHOOSE ij \in segs :
                      /\ RefKey(line(ij)) = k
                      /\ \A o \in segs : RefKey(line(o)) = k => o[1] <= ij[1]
    IN  [k \in keys |-> RefValue(line(last(k)))]

\* C5: the loader's mapping is the reference mapping of the file: each line
\* that, trimmed, is non-blank, is no comment and holds '=' gives the pair
\* (trimmed text before the first '=', trimmed text after it); every other
\* line gives nothing.
C5_LoaderIsReference ==
    parsed.done => parsed.env = RefEnv(text)

\* C5 witness: a loaded file of two lines or more, one of them skipped, with
\* a value that itself holds '='.
C5_Witness ==
    /\ parsed.done
    /\ \E k \in DOMAIN parsed.env : Contains(parsed.env[k], EQ)
    /\ Len(FileLines(text)) >= 2
    /\ Cardinality(DOMAIN parsed.env) < Len(FileLines(text))

\* ---- the project context ----
ReservedKeys == {EnvName[f] : f \in DOMAIN EnvName}

\* the step builds a ProjectConfig: load_project is called in a process that
\* has none yet, from a directory below a project root
Constructing ==
    /\ status.state = "running"
    /\ ~project.set
    /\ op' = "load_project"
    /\ \E d \in 1..cwd : marker[d] = "dir"

\* the value get_env computes for a reserved key
Computed(k) ==
    CASE k = <<"PROJECT_NAME">>         -> project.project_name
      [] k = <<"COMPOSE_PROJECT_NAME">> -> project.project_name
      [] k = <<"PROJECT_ROOT">>         -> PathOf(project.root_dir)
      [] k = <<"CONTAINER_ROOT">>       -> project.container_dir
      [] k = <<"DIP_DIR">>              -> PathOf(project.root_dir) \o <<"/", ".dip">>
      [] k = <<"ENV_FILE">>             ->
            PathOf(project.root_dir) \o <<"/", ".dip", "/", ".env">>
      [] k = <<"HOST_UID">>             -> HostUid
      [] k = <<"HOST_GID">>             -> HostGid

\* C2: in the environment get_env returns, a reserved key has its computed
\* value, any other key of the env file has the file's value, and any other
\* key has the inherited value; there is no further key.
C2_EnvLayering ==
    env_out.done =>
        LET file == RefEnv(env_file.bytes)
        IN  /\ DOMAIN env_out.env =
                  ReservedKeys \cup DOMAIN file \cup DOMAIN os_environ
            /\ Cardinality(ReservedKeys) = 8
            /\ \A k \in DOMAIN env_out.env :
                  env_out.env[k] =
                      IF k \in ReservedKeys THEN Computed(k)
                      ELSE IF k \in DOMAIN file THEN file[k]
                      ELSE os_environ[k]

\* C2 witness: get_env has run where the file names a reserved key, the
\* inherited environment names a reserved key and a key of the file, and an
\* inherited key is in neither.
C2_Witness ==
    /\ env_out.done
    /\ \E k \in ReservedKeys :
          /\ k \in DOMAIN project.env_name
          /\ project.env_name[k] # env_out.env[k]
    /\ \E k \in ReservedKeys :
          k \in DOMAIN os_environ /\ os_environ[k] # env_out.env[k]
    /\ \E k \in DOMAIN os_environ \cap DOMAIN project.env_name :
          k \notin ReservedKeys /\ os_environ[k] # project.env_name[k]
    /\ \E k \in DOMAIN os_environ :
          k \notin ReservedKeys /\ k \notin DOMAIN project.env_name

\* C3: when the env file defines PROJECT_NAME=p, COMPOSE_PROJECT_NAME is p
\* in every environment get_env returns, and so is PROJECT_NAME.
C3_ComposeNameIsProjectName ==
    (env_out.done /\ <<"PROJECT_NAME">> \in DOMAIN RefEnv(env_file.bytes)) =>
        /\ <<"COMPOSE_PROJECT_NAME">> \in DOMAIN env_out.env
        /\ <<"PROJECT_NAME">> \in DOMAIN env_out.env
        /\ env_out.env[<<"COMPOSE_PROJECT_NAME">>] =
              RefEnv(env_file.bytes)[<<"PROJECT_NAME">>]
        /\ env_out.env[<<"COMPOSE_PROJECT_NAME">>] = env_out.env[<<"PROJECT_NAME">>]

\* C3 witness: get_env has run where both the env file and the inherited
\* environment give COMPOSE_PROJECT_NAME a value other than the project name.
C3_Witness ==
    /\ env_out.done
    /\ <<"COMPOSE_PROJECT_NAME">> \in DOMAIN RefEnv(env_file.bytes)
    /\ RefEnv(env_file.bytes)[<<"COMPOSE_PROJECT_NAME">>] # project.project_name
    /\ <<"COMPOSE_PROJECT_NAME">> \in DOMAIN os_environ
    /\ os_environ[<<"COMPOSE_PROJECT_NAME">>] # project.project_name

\* C8: building the project context with ".env" missing and "default.env"
\* present creates ".env" with exactly the template's content and parses
\* it; an ".env" that exists is never written again.
C8_BootstrapExactOnce ==
    [][ /\ (Constructing /\ ~env_file.exists /\ default_env_file.exists) =>
              /\ env_file'.exists
              /\ env_file'.bytes = default_env_file.bytes
              /\ project'.set => project'.env_name = RefEnv(default_env_file.bytes)
        /\ env_file.exists => env_file' = env_file ]_vars

\* The second half of C8 alone: once ".env" exists no step writes it.
EnvFileWrittenOnce ==
    [][env_file.exists => env_file' = env_file]_vars

\* C9: building the project context with neither ".env" nor "default.env"
\* raises FileNotFoundError, creates no file and sets no project.
C9_NoEnvNoTemplate ==
    [][ (Constructing /\ ~env_file.exists /\ ~default_env_file.exists) =>
            /\ status'.state = "raised"
            /\ status'.exc = "FileNotFoundError"
            /\ env_file' = env_file
            /\ default_env_file' = default_env_file
            /\ ~project'.set ]_vars

\* C9 witness: a process that found a project root ended on
\* FileNotFoundError with both files missing.
C9_Witness ==
    /\ status.state = "raised"
    /\ status.exc = "FileNotFoundError"
    /\ \E d \in 1..cwd : marker[d] = "dir"
    /\ ~env_file.exists
    /\ ~default_env_file.exists

\* the bytes the constructor parses, when it gets as far as parsing
ParsedBytes ==
    IF env_file.exists THEN env_file.bytes ELSE default_env_file.bytes

\* C10: building the project context raises ValueError whenever the mapping
\* loaded from the env file has no PROJECT_NAME, and the manager never holds
\* a project whose project_name is unset.
C10_ProjectNameRequired ==
    /\ [][ ( /\ Constructing
             /\ env_file.exists \/
                   (default_env_file.exists /\ default_env_file.readable)
             /\ <<"PROJECT_NAME">> \notin DOMAIN RefEnv(ParsedBytes) ) =>
               /\ status'.state = "raised"
               /\ status'.exc = "ValueError"
               /\ ~project'.set ]_vars
    /\ [](project.set =>
             /\ project.project_name # <<>>
             /\ project.project_name # PyNone
             /\ <<"PROJECT_NAME">> \in DOMAIN project.env_name
             /\ project.project_name = project.env_name[<<"PROJECT_NAME">>])

\* C10 witness: a process ended on ValueError over an env file that exists
\* and does not define PROJECT_NAME.
C10_Witness ==
    /\ status.state = "raised"
    /\ status.exc = "ValueError"
    /\ env_file.exists
    /\ <<"PROJECT_NAME">> \notin DOMAIN RefEnv(env_file.bytes)

\* ---- container resolution ----
\* name begins with "<project_name>-<service>"
HasPrefix(name, project_name, service) ==
    LET n == Len(project_name)
    IN  /\ Len(name) >= n + 1 + Len(service)
        /\ \A x \in 1..n : name[x] = project_name[x]
        /\ name[n + 1] = "-"
        /\ \A x \in 1..Len(service) : name[n + 1 + x] = service[x]

\* the container described by row w of the engine's listing
IsRow(c, w) ==
    /\ c.id = w.ID
    /\ c.names = w.Names
    /\ c.service = w.Service
    /\ c.state = w.State
    /\ c.status = w.Status

\* the positions of the list whose container matches the service
Hits(list, service) ==
    {x \in 1..Len(list) :
        /\ list[x].service = service
        /\ HasPrefix(list[x].names, project.project_name, service)}

\* C1: a container returned by get_container(service) is one of the rows
\* the engine lists for the project, running or not, its service field is
\* `service` and its name begins with "<project_name>-<service>".
C1_ServiceAndPrefix ==
    \A i \in 1..Len(resolutions) :
        resolutions[i].some =>
            /\ resolutions[i].cntr.service = resolutions[i].service
            /\ HasPrefix(resolutions[i].cntr.names, project.project_name,
                         resolutions[i].service)
            /\ \E j \in 1..Len(resolutions[i].rows) :
                  IsRow(resolutions[i].cntr, resolutions[i].rows[j])

\* C1 witness: a stopped container was returned although a row listed
\* before it has the service and not the prefix.
C1_Witness ==
    \E i \in 1..Len(resolutions) :
        /\ resolutions[i].some
        /\ resolutions[i].cntr.state = <<"exited">>
        /\ resolutions[i].rows[1].Service = resolutions[i].service
        /\ ~HasPrefix(resolutions[i].rows[1].Names, project.project_name,
                      resolutions[i].service)

\* C6: when no listed container matches, get_container with no_error=False
\* ends the process with a non-zero status after printing the error, and
\* with no_error=True it returns None and the process goes on.
C6_NoMatch ==
    \A i \in 1..Len(resolutions) :
        Hits(resolutions[i].listed, resolutions[i].service) = {} =>
            /\ ~resolutions[i].some
            /\ resolutions[i].no_error => resolutions[i].returned
            /\ ~resolutions[i].no_error =>
                  /\ ~resolutions[i].returned
                  /\ i = Len(resolutions)
                  /\ status.state = "exit"
                  /\ status.code # 0
                  /\ output # <<>>
                  /\ output[Len(output)] = "error: Container for service not found"

\* C6 witness: an optional lookup found nothing in a non-empty listing and
\* returned, and a later required lookup found nothing and ended the
\* process.
C6_Witness ==
    \E i, j \in 1..Len(resolutions) :
        /\ i < j
        /\ resolutions[i].listed # <<>>
        /\ ~resolutions[i].some /\ resolutions[i].no_error
        /\ ~resolutions[j].some /\ ~resolutions[j].no_error
        /\ status.state = "exit"

\* C7: get_containers keeps the engine's order, and of several matches
\* get_container returns the one listed first, whatever their state or
\* creation time.
C7_FirstInEngineOrder ==
    \A i \in 1..Len(resolutions) :
        /\ resolutions[i].ps_ok =>
              /\ Len(resolutions[i].listed) = Len(resolutions[i].rows)
              /\ \A j \in 1..Len(resolutions[i].rows) :
                    IsRow(resolutions[i].listed[j], resolutions[i].rows[j])
        /\ resolutions[i].some =>
              /\ Hits(resolutions[i].listed, resolutions[i].service) # {}
              /\ resolutions[i].cntr =
                    resolutions[i].listed[
                        SetMin(Hits(resolutions[i].listed, resolutions[i].service))]

\* C7 witness: two containers matched and the one returned is the stopped
\* one listed first, the running one being listed after it.
C7_Witness ==
    \E i \in 1..Len(resolutions) :
        /\ resolutions[i].some
        /\ Cardinality(Hits(resolutions[i].listed, resolutions[i].service)) >= 2
        /\ resolutions[i].cntr.state = <<"exited">>
        /\ \E j \in Hits(resolutions[i].listed, resolutions[i].service) :
              /\ resolutions[i].listed[j].state = <<"running">>
              /\ resolutions[i].listed[j].created # resolutions[i].cntr.created

\* ---- the default container path ----
WarnContainerRoot == "warning: CONTAINER_ROOT is not set"

\* how many times the process has printed message m
Printed(m) == Cardinality({i \in 1..Len(output) : output[i] = m})

\* C11: building the project context from an env file that gives
\* PROJECT_NAME a value and has no CONTAINER_ROOT succeeds, sets
\* container_dir to "/var/www" and prints the warning once; a later
\* load_project of the same process prints nothing and the warning is never
\* printed twice.
C11_DefaultContainerRoot ==
    /\ [][ ( /\ Constructing
             /\ env_file.exists \/
                   (default_env_file.exists /\ default_env_file.readable)
             /\ <<"PROJECT_NAME">> \in DOMAIN RefEnv(ParsedBytes)
             /\ <<"CONTAINER_ROOT">> \notin DOMAIN RefEnv(ParsedBytes) ) =>
               ( RefEnv(ParsedBytes)[<<"PROJECT_NAME">>] # <<>> =>
                   /\ status'.state = "running"
                   /\ project'.set
                   /\ project'.container_dir = <<"/var/www">>
                   /\ output' = Append(output, WarnContainerRoot) ) ]_vars
    /\ [][ (project.set /\ op' = "load_project") =>
              /\ output' = output
              /\ project' = project ]_vars
    /\ [](Printed(WarnContainerRoot) <= 1)

\* C11 witness: a project with the default container path and one warning,
\* in a process that called load_project again after get_env.
C11_Witness ==
    /\ project.set
    /\ <<"CONTAINER_ROOT">> \notin DOMAIN project.env_name
    /\ project.container_dir = <<"/var/www">>
    /\ Printed(WarnContainerRoot) = 1
    /\ env_out.done
    /\ op = "load_project"

\* C12: whenever a directory of the chain from cwd up to and including "/"
\* holds ".dip", find_root returns the one nearest to cwd.
C12_RootIncluded ==
    found.done =>
        (Marked # {} =>
            /\ found.res.ok
            /\ found.res.dir = SetMax(Marked))

\* The part of C12 that holds: "/" apart, a marked directory of the chain is
\* found.
MarkedBelowRootFound ==
    found.done =>
        ((Marked \ {0}) # {} =>
            /\ found.res.ok
            /\ found.res.dir = SetMax(Marked))

\* C13: the walk always comes to an end, and from a directory with no
\* ".dip" directory on its chain it ends with None; the loop and find_root
\* agree on that.
C13_WalkEndsNotFound ==
    /\ <>(walk.state \in {"found", "none"})
    /\ []( (walk.state \in {"found", "none"} /\ Marked = {}) =>
              /\ walk.state = "none"
              /\ walk.current = 0
              /\ ~FindRoot(marker, cwd).ok )

\* C13 witness: the walk from the deepest directory ended with None on a
\* chain where ".dip" is a plain file somewhere and a directory nowhere.
C13_Witness ==
    /\ walk.state = "none"
    /\ cwd = MaxDepth
    /\ Marked = {}
    /\ \E d \in 1..cwd : marker[d] = "file"

\* C15: within one process the project, once set, is never replaced and
\* none of its fields changes, whatever is called afterwards (load_project,
\* get_env); ProjectConfig is constructed at most once.
C15_ProjectBuiltOnce ==
    /\ [][ (project.set /\ runs' = runs) => project' = project ]_vars
    /\ [](constructed <= 1)
    /\ [](project.set => constructed = 1)

\* C15 witness: a process that holds a project called get_env and then
\* load_project again.
C15_Witness ==
    /\ project.set
    /\ constructed = 1
    /\ env_out.done
    /\ op = "load_project"
    /\ DOMAIN env_out.env # DOMAIN project.env_name

\* ---- external processes ----
\* the external commands the process has run all ended with status zero
AllCallsOk == \A i \in 1..Len(calls) : calls[i].outcome = "ok"

CallsOfKind(kinds) == {i \in 1..Len(calls) : calls[i].kind \in kinds}

HasArg(c, a) == \E j \in 1..Len(c.argv) : c.argv[j] = a

\* C14: from a directory with no ".dip" on its chain and with the engine
\* answering, building the manager does not end the process, and sysinfo
\* returns normally having printed the overview and then the "not a dip
\* project" warning, with no service tree and no compose call.
C14_SysinfoWithoutProject ==
    /\ [][ ( /\ status.state = "starting"
             /\ Marked = {}
             /\ Len(calls') >= 1
             /\ calls'[1].outcome = "ok" ) =>
               /\ status'.state = "running"
               /\ output' = <<>> ]_vars
    /\ []( (op = "sysinfo" /\ Marked = {} /\ AllCallsOk) =>
              /\ status.state = "running"
              /\ ~project.set
              /\ output = <<"panel: System Overview",
                            "warning: Not a dip project">>
              /\ CallsOfKind({"compose"}) = {}
              /\ \E i \in CallsOfKind({"docker"}) : HasArg(calls[i], "version")
              /\ \E i \in CallsOfKind({"docker"}) : HasArg(calls[i], "info") )

\* C14 witness: sysinfo has returned in a directory with no project, every
\* external command having succeeded.
C14_Witness ==
    /\ op = "sysinfo"
    /\ Marked = {}
    /\ AllCallsOk
    /\ status.state = "running"
    /\ Len(output) = 2

\* a call's environment holds the eight reserved keys with their computed
\* values
HasReservedEnv(c) ==
    \A k \in ReservedKeys : k \in DOMAIN c.env /\ c.env[k] = Computed(k)

\* C16 as stated: every engine call, compose call and custom command of a
\* process that holds a project gets the eight reserved keys with their
\* computed values.
C16_EveryCallHasReservedEnv ==
    project.set =>
        \A i \in CallsOfKind({"docker", "compose", "custom"}) :
            HasReservedEnv(calls[i])

\* C16 amended: every compose call and every custom command gets the eight
\* reserved keys with their computed values, over the env file's keys and
\* the inherited environment; a call through docker() and the health check
\* get the inherited environment as it is.
C16_ComposeAndCustomEnv ==
    /\ \A i \in CallsOfKind({"compose", "custom"}) :
          /\ project.set
          /\ HasReservedEnv(calls[i])
          /\ DOMAIN calls[i].env =
                ReservedKeys \cup DOMAIN project.env_name \cup DOMAIN os_environ
    /\ \A i \in CallsOfKind({"docker", "health"}) : calls[i].env = os_environ

\* C16 witness: a process ran a compose command and an engine command, the
\* inherited environment naming a reserved key with another value.
C16_Witness ==
    /\ project.set
    /\ CallsOfKind({"compose"}) # {}
    /\ \E i \in CallsOfKind({"docker"}) : HasArg(calls[i], "-ilc")
    /\ <<"COMPOSE_PROJECT_NAME">> \in DOMAIN os_environ
    /\ os_environ[<<"COMPOSE_PROJECT_NAME">>] # project.project_name

\* C17: an engine or compose command is run right after a health check that
\* passed; a health check that fails, however it fails, is the last
\* external process of the run and the process has ended with a non-zero
\* status.
C17_HealthCheckFirst ==
    /\ \A i \in CallsOfKind({"docker", "compose"}) :
          /\ i > 1
          /\ calls[i - 1].kind = "health"
          /\ calls[i - 1].outcome = "ok"
    /\ \A i \in CallsOfKind({"health"}) :
          calls[i].outcome # "ok" =>
              /\ i = Len(calls)
              /\ status.state = "exit"
              /\ status.code # 0

\* C17 witness: the health check timed out after the process had run an
\* engine command, and the process has ended.
C17_Witness ==
    /\ Len(calls) >= 4
    /\ calls[Len(calls)].kind = "health"
    /\ calls[Len(calls)].outcome = "timeout"
    /\ CallsOfKind({"docker"}) # {}
    /\ status.state = "exit"

\* C18: an engine or compose command (the shell probe apart) that ends with
\* a non-zero status is the last thing the command does: the process has
\* ended with a failure and printed nothing further.
C18_NoFailureSwallowed ==
    \A i \in CallsOfKind({"docker", "compose"}) :
        (calls[i].rc # 0 /\ ~HasArg(calls[i], "which")) =>
            /\ i = Len(calls)
            /\ status.state \in {"exit", "raised"}
            /\ status.code # 0

\* C18 for the container query alone: status does not go on to "No
\* containers found" after "compose ps" has failed.
ContainerQueryFailureIsFatal ==
    (op = "status" /\ \E i \in CallsOfKind({"compose"}) : calls[i].rc # 0) =>
        status.state \in {"exit", "raised"}

\* C19: without ".dip/docker-compose.yml" a command that needs it ends the
\* process with a failure and does not print "No containers found".
C19_MissingComposeFileIsFatal ==
    ( /\ ~compose_file
      /\ op \in {"status", "stop", "exec"} \/ (op = "sysinfo" /\ project.set) ) =>
        /\ status.state \in {"exit", "raised"}
        /\ status.code # 0
        /\ \A j \in 1..Len(output) : output[j] # "warning: No containers found"

\* the "-ilc" command exec has just run, if it got that far
ExecRan ==
    /\ op = "exec"
    /\ calls # <<>>
    /\ calls[Len(calls)].kind = "docker"
    /\ HasArg(calls[Len(calls)], "-ilc")

\* C20: when the command exec runs in the container ends with a non-zero
\* code c the process exits with status c, and when it ends with 0 exec
\* returns and the process goes on.
C20_ExecForwardsExitCode ==
    ExecRan =>
        /\ calls[Len(calls)].rc \in 1..255 =>
              /\ status.state = "exit"
              /\ status.code = calls[Len(calls)].rc
        /\ calls[Len(calls)].rc = 0 =>
              /\ status.state = "running"
              /\ \A j \in 1..Len(output) :
                    output[j] # "error: Command exited with code"

\* C20 witness: the command ended with 255 and so did the process.
C20_Witness ==
    /\ ExecRan
    /\ calls[Len(calls)].rc = 255
    /\ status.state = "exit"
    /\ status.code = 255

(***************************************************************************)
(* C21: container resolution is never cached                               *)
(***************************************************************************)
ListingQueries ==
    {k \in 1..Len(calls) : /\ calls[k].kind = "compose"
                           /\ \E a \in 1..Len(calls[k].argv) :
                                 calls[k].argv[a] = "ps"}

\* C21: every get_container call that gets as far as matching has issued
\* one listing query of its own, and what it matched against is, row for
\* row, what the engine held at the time of that call, whatever an earlier
\* call of the same process saw.
C21_NoCaching ==
    /\ Cardinality(ListingQueries) = Len(resolutions)
    /\ \A i \in 1..Len(resolutions) :
          resolutions[i].ps_ok =>
             /\ Len(resolutions[i].listed) = Len(resolutions[i].rows)
             /\ \A k \in 1..Len(resolutions[i].rows) :
                   resolutions[i].listed[k].id = resolutions[i].rows[k].ID

\* Two resolutions of one service in one process, the engine's containers
\* having changed in between, the second returning another container.
C21_Witness ==
    /\ Len(resolutions) >= 2
    /\ resolutions[1].service = resolutions[2].service
    /\ resolutions[1].ps_ok /\ resolutions[2].ps_ok
    /\ resolutions[1].rows # resolutions[2].rows
    /\ resolutions[1].some /\ resolutions[2].some
    /\ resolutions[1].cntr # resolutions[2].cntr

(***************************************************************************)
(* C23: reset stops, removes and starts, each step after the one before    *)
(***************************************************************************)
\* The compose calls of the process, oldest first, as their arguments after
\* "docker compose"
RECURSIVE ComposeArgs(_)
ComposeArgs(log) ==
    IF log = <<>> THEN <<>>
    ELSE IF Head(log).kind = "compose"
         THEN <<[args |-> SubSeq(Head(log).argv, 3, Len(Head(log).argv)),
                 rc |-> Head(log).rc]>> \o ComposeArgs(Tail(log))
         ELSE ComposeArgs(Tail(log))

ResetSteps == << <<"stop">>, <<"rm", "-f">>, <<"up", "-d">> >>

\* C23: after reset, the compose calls made are the first n of `stop`,
\* `rm -f`, `up -d` in this order; every one but the last exited with
\* status zero, and 'Container reset completed' is printed only when all
\* three were made and exited with status zero.
C23_ResetInOrder ==
    op = "reset" =>
        LET made == ComposeArgs(calls) IN
        /\ Len(made) <= 3
        /\ \A k \in 1..Len(made) :
              /\ made[k].args = ResetSteps[k]
              /\ k < Len(made) => made[k].rc = 0
        /\ Printed("success: Container reset completed") > 0 =>
              /\ Len(made) = 3
              /\ made[3].rc = 0
              /\ status.state = "running"

\* reset where `stop` succeeded and `rm -f` exited non-zero: `up -d` was
\* not made.
C23_Witness ==
    /\ op = "reset"
    /\ Len(ComposeArgs(calls)) = 2
    /\ ComposeArgs(calls)[2].rc # 0
    /\ Printed("success: Container reset completed") = 0

(***************************************************************************)
(* C22: no external call is retried                                        *)
(***************************************************************************)
CallFailed(c) == c.outcome # "ok" \/ c.rc # 0

\* C22: once a call of the process has failed, no later call of the process
\* runs the same tool with the same arguments.
C22_NoCallRepeatedAfterFailure ==
    \A i, j \in 1..Len(calls) :
        (i < j /\ CallFailed(calls[i])) =>
            ~(calls[j].kind = calls[i].kind /\ calls[j].argv = calls[i].argv)

(***************************************************************************)
(* C25: shell launches only a shell whose existence check succeeded        *)
(***************************************************************************)
WhichCalls ==
    {k \in 1..Len(calls) : /\ calls[k].kind = "docker"
                           /\ Len(calls[k].argv) = 5
                           /\ calls[k].argv[4] = "which"}

ShellLaunches ==
    {k \in 1..Len(calls) : /\ calls[k].kind = "docker"
                           /\ Len(calls[k].argv) = 5
                           /\ calls[k].argv[3] = "-it"}

\* C25: after shell(service, t), an interactive exec was issued only after
\* a `which` of the shell it launches, in the same container, exited with
\* status zero; the shell launched is t when the check of t succeeded and
\* `sh` otherwise; and when the checks of t and of `sh` both failed the
\* process has exited with status 1 without an interactive exec.
C25_ShellChecked ==
    op = "shell" =>
        /\ \A k \in ShellLaunches :
              /\ \E j \in WhichCalls :
                    /\ j < k
                    /\ calls[j].argv[3] = calls[k].argv[4]
                    /\ calls[j].argv[5] = calls[k].argv[5]
                    /\ calls[j].rc = 0
              /\ \A j \in WhichCalls :
                    (\A i \in WhichCalls : j <= i) =>
                        IF calls[j].rc = 0
                        THEN calls[k].argv[5] = calls[j].argv[5]
                        ELSE calls[k].argv[5] = "sh"
        /\ (Cardinality(WhichCalls) = 2 /\ \A j \in WhichCalls : calls[j].rc # 0)
              => /\ ShellLaunches = {}
                 /\ status.state = "exit"
                 /\ status.code = 1

\* shell(service, "bash") in a container without bash and with sh: sh was
\* checked and launched.
C25_Witness ==
    /\ op = "shell"
    /\ \E j \in WhichCalls : calls[j].argv[5] = "bash" /\ calls[j].rc # 0
    /\ \E k \in ShellLaunches : calls[k].argv[5] = "sh"

(***************************************************************************)
(* C26: get_containers(running=True) keeps the running containers          *)
(***************************************************************************)
\* C26: when top() without a service has listed the project's containers
\* and reports 'No running containers found', the engine lists no container
\* of the project whose state is running.
C26_RunningOnesKept ==
    ( /\ op = "top"
      /\ \E k \in ListingQueries : calls[k].rc = 0
      /\ Printed("warning: No running containers found") > 0 )
    => \A i \in 1..Len(engine) : engine[i].State # <<"running">>

(***************************************************************************)
(* C30: exec runs the command in the directory that mirrors the host cwd   *)
(***************************************************************************)
\* The part of the path of directory c that follows the path of root
PathBelow(c, root) ==
    SubSeq(PathOf(c), Len(PathOf(root)) + 1, Len(PathOf(c)))

\* C30: the exec call that runs the command is given, after "-w", the
\* project's container_dir followed by the part of the host cwd's path that
\* lies below root_dir, and then the container; with cwd the root itself
\* that is container_dir alone.
C30_ExecWorkingDirectory ==
    op = "exec" =>
        \A k \in 1..Len(calls) :
            (calls[k].kind = "docker" /\ HasArg(calls[k], "-ilc")) =>
                LET dest == project.container_dir
                                \o PathBelow(cwd, project.root_dir)
                IN  \E w \in 1..Len(calls[k].argv) :
                        /\ calls[k].argv[w] = "-w"
                        /\ w + Len(dest) + 1 <= Len(calls[k].argv)
                        /\ SubSeq(calls[k].argv, w + 1, w + Len(dest)) = dest
                        /\ calls[k].argv[w + Len(dest) + 1] \notin {"/", "d"}

\* exec from a directory below the project root: the command ran in the
\* matching directory below container_dir.
C30_Witness ==
    /\ op = "exec"
    /\ project.set
    /\ cwd > project.root_dir
    /\ \E k \in 1..Len(calls) : HasArg(calls[k], "-ilc")

(***************************************************************************)
(* C24: nothing destructive without the user's consent                     *)
(***************************************************************************)
Destructive(c) ==
    \/ c.kind = "docker" /\ HasArg(c, "disconnect")
    \/ c.kind = "docker" /\ HasArg(c, "prune")
    \/ c.kind = "compose" /\ HasArg(c, "down")

\* C24: a process that ran remove(None) or prune has issued a network
\* disconnect, a compose `down --volumes`, a `system prune` or a `volume
\* prune` only if the answer typed at the prompt was "y" or "Y"; after any
\* other answer, the empty one included, it has printed 'Operation
\* cancelled' or stopped earlier, and the host is as it was.
C24_ConfirmedBeforeDestroying ==
    [][ (op' \in {"remove", "prune"} /\ host.stdin \notin {<<"y">>, <<"Y">>}) =>
            /\ \A k \in 1..Len(calls') : ~Destructive(calls'[k])
            /\ host' = host ]_vars

\* remove(None) answered "Y": the networks were disconnected and compose
\* `down --volumes` was issued.
C24_Witness ==
    /\ op = "remove"
    /\ host.stdin = <<"Y">>
    /\ \E k \in 1..Len(calls) :
          calls[k].kind = "compose" /\ HasArg(calls[k], "--volumes")
    /\ \E k \in 1..Len(calls) : HasArg(calls[k], "disconnect")

\* prune or remove(None) answered with anything but "y": cancelled.
CancelledRun ==
    /\ op \in {"remove", "prune"}
    /\ host.stdin \notin {<<"y">>, <<"Y">>}
    /\ Printed("warning: Operation cancelled") > 0

(***************************************************************************)
(* C27: the proxy network is created only when it is missing               *)
(***************************************************************************)
NetworkCalls(verb) ==
    {k \in 1..Len(calls) : /\ calls[k].kind = "docker"
                           /\ Len(calls[k].argv) = 4
                           /\ calls[k].argv[2] = "network"
                           /\ calls[k].argv[3] = verb}

\* C27: every `network create` of start_traefik names the network that the
\* `network inspect` before it named.
C27_CreatesInspectedNetwork ==
    \A k \in NetworkCalls("create") :
        \E j \in NetworkCalls("inspect") :
            j < k /\ calls[j].argv[4] = calls[k].argv[4]

\* C27, second half: start_traefik issues `network create` for no network
\* that exists.
CreatesOnlyMissingNetwork ==
    [][ op' = "start_traefik" =>
            \A k \in 1..Len(calls') :
                (k > Len(calls) /\ calls'[k].kind = "docker"
                    /\ HasArg(calls'[k], "create"))
                => calls'[k].argv[4] \notin host.networks ]_vars

(***************************************************************************)
(* C28: starting and stopping Traefik is guarded                           *)
(***************************************************************************)
TraefikComposeCall(c) ==
    c.kind = "docker" /\ HasArg(c, "compose") /\ HasArg(c, "-f")

\* C28: start_traefik on a host where Traefik is running issues no network
\* and no compose command; stop_traefik on a host where it is not running
\* issues no compose command; and neither issues a compose command on a
\* host without the Traefik compose file.
C28_TraefikGuarded ==
    [][ \A k \in 1..Len(calls') :
            k > Len(calls) =>
               /\ (op' = "start_traefik" /\ host.traefik_running) =>
                     /\ ~TraefikComposeCall(calls'[k])
                     /\ ~HasArg(calls'[k], "network")
               /\ (op' = "stop_traefik" /\ ~host.traefik_running) =>
                     ~TraefikComposeCall(calls'[k])
               /\ (op' \in {"start_traefik", "stop_traefik"}
                      /\ ~host.traefik_compose_file) =>
                     ~TraefikComposeCall(calls'[k]) ]_vars

\* The same with the guard read as the code reads it: a start whose probe
\* exited with status zero on a host where Traefik is running issues no
\* network and no compose command.
GuardedWhenProbeAnswers ==
    [][ ( /\ op' = "start_traefik"
          /\ host.traefik_running
          /\ \A k \in 1..Len(calls') :
                (k > Len(calls) /\ HasArg(calls'[k], "status=running"))
                => calls'[k].rc = 0 )
        => \A k \in 1..Len(calls') :
               k > Len(calls) =>
                  /\ ~TraefikComposeCall(calls'[k])
                  /\ ~HasArg(calls'[k], "network") ]_vars

(***************************************************************************)
(* C29: one disconnect for every attached container                        *)
(***************************************************************************)
AttachedIds == {i \in 1..Len(host.attached) : host.attached[i] # LF}

\* C29: a process that ran remove(None), whose one network is handed to
\* disconnect_network, has issued at most one `network disconnect` for
\* every container the engine reports as attached to the network, and none
\* when none is attached.
C29_OneDisconnectPerAttached ==
    op = "remove" =>
        Cardinality({k \in 1..Len(calls) : HasArg(calls[k], "disconnect")})
            <= Cardinality(AttachedIds)

\* With two containers attached both are disconnected, one call each.
DisconnectsBoth ==
    /\ op = "remove"
    /\ Cardinality(AttachedIds) = 2
    /\ Cardinality({k \in 1..Len(calls) : HasArg(calls[k], "disconnect")}) = 2

====
